---- MODULE Spec2Model ----
(***************************************************************************)
(* A model of the aioskybell client: the session / request layer of        *)
(* aioskybell/__init__.py (class Skybell) and the device aggregator of     *)
(* aioskybell/device.py (class SkybellDevice).                             *)
(*                                                                         *)
(* Every public coroutine is one action.  A coroutine's body is an         *)
(* operator that maps the client state at the call to the SET of runs the  *)
(* call can have, one run per sequence of answers of the HTTP transport;   *)
(* a run is the client state at the return, the returned value or raised   *)
(* exception, and the log of the logins and requests that were made.       *)
(*                                                                         *)
(* JSON values are tagged: Str, Num, Bool, List, Dict (a function from     *)
(* keys to JSON values), Bytes.                                            *)
(***************************************************************************)
EXTENDS Integers, Sequences, FiniteSets, TLC

VARIABLES
    cache,          \* Skybell._cache: key -> JSON value
    username,       \* Skybell._username (None when not given)
    password,       \* Skybell._password (None when not given)
    session,        \* Skybell._session: "open" or "closed"
    close_session,  \* Skybell._close_session: the client created the session
    disable_cache,  \* Skybell._disable_cache
    cache_path,     \* Skybell._cache_path
    store,          \* the files on the disk: path -> file
    devices,        \* Skybell._devices: device id -> SkybellDevice
    now,            \* the wall clock, datetime.now()
    faults,         \* the failures the network can show in this behaviour
    servers,        \* the server contents the calls of this behaviour can meet
    tasks,          \* the tasks that run async_send_request concurrently
    last            \* the last public call: arguments, state before, run

vars == <<cache, username, password, session, close_session, disable_cache,
          cache_path, store, devices, now, faults, servers, tasks,
          last>>

----------------------------------------------------------------------------
(* Bounds of the model *)

MaxNow == 2          \* the clock runs over 0..MaxNow
MaxLifetime == 3     \* the server grants token lifetimes 1..MaxLifetime
MaxActs == 3         \* an activity list has at most MaxActs activities
MaxTime == 3         \* the activities happen at the times 1..MaxTime
MaxSettings == 2     \* a setting is set while the record has fewer settings
MaxSlack == 2        \* the slacks of an expiration are 0..MaxSlack
MaxCycle == 3        \* the refresh cycles of an expiration are 0..MaxCycle

----------------------------------------------------------------------------
(* JSON values *)

Str(s) == [t |-> "str", v |-> s]
Num(n) == [t |-> "int", v |-> n]
Bool(b) == [t |-> "bool", v |-> b]
Bytes(b) == [t |-> "bytes", v |-> b]
List(s) == [t |-> "list", v |-> s]
Dict(f) == [t |-> "dict", v |-> f]
NoneValue == [t |-> "none", v |-> "None"]
EmptyMap == <<>>
EmptyDict == Dict(EmptyMap)
IsDict(x) == x.t = "dict"

\* dict.get(key, default) on a map
Get(m, key, default) == IF key \in DOMAIN m THEN m[key] ELSE default

\* len(dict)
Size(m) == Cardinality(DOMAIN m)

None == "None"

----------------------------------------------------------------------------
(* helpers/const.py *)

AUTHENTICATION_RESULT == "AuthenticationResult"
ID_TOKEN == "AccessToken"
REFRESH_TOKEN == "RefreshToken"
TOKEN_TYPE == "TokenType"
TOKEN_EXPIRATION == "ExpiresIn"
EXPIRATION_DATE == "ExpirationDate"
RESPONSE_DATA == "data"
RESPONSE_ROWS == "rows"
DEVICE_ID == "device_id"
NAME == "name"

\* the cache path of a client: __init__ derives it from the username when
\* the caller gives none
CACHE_PATH == "./skybell.pickle"
CachePath(user) ==
    IF user # None THEN "skybell_" \o user \o ".pickle" ELSE CACHE_PATH

EXPIRATION_SLACK == 1
REFRESH_CYCLE == 1

Url(ep, id) == [ep |-> ep, id |-> id]
LOGIN_URL == Url("login", "")
USER_URL == Url("user", "")
DEVICES_URL == Url("devices", "")
REFRESH_TOKEN_URL == Url("token", "")
\* a URL on another host than BASE_API_DOMAIN (a video download URL)
DOWNLOAD_HOST_URL == Url("download", "")
\* the URL "" (an absent download URL)
EMPTY_URL == Url("", "")
DEVICE_URL(id) == Url("device", id)
DEVICE_SNAPSHOT_URL(id) == Url("snapshot", id)
DEVICE_SETTINGS_URL(id) == Url("settings", id)
DEVICE_ACTIVITIES_URL(id) == Url("activities", id)
\* CONST.BASE_API_URL + the video_url of an activity
VideoUrl(video) == Url("video", video)
NoUrl == Url("none", "")

ACTIVITY == "activity"
ACTIVITY_ID == "activity_id"
EVENT_TYPE == "event_type"
EVENT_TIME == "event_time"
VIDEO_URL == "video_url"
DOWNLOAD_URL == "download_url"
SNAPSHOT == "avatar"
PREVIEW_CREATED_AT == "date_time"
PREVIEW_IMAGE == "preview"
SETTINGS == "settings"
LED_CONTROL == "led_control"
LED_COLOR == "led_color"
INDOOR_CHIME == "indoor_chime"
INDOOR_DIGITAL_CHIME == "digital_chime"
CHIME_FILE == "chime_file"
OUTDOOR_CHIME == "outdoor_chime"
OUTDOOR_CHIME_VOLUME == "outdoor_chime_volume"
OUTDOOR_CHIME_FILE == "outdoor_chime_file"
SPEAKER_VOLUME == "speaker_volume"
MOTION_DETECTION == "motion_detection"
IMAGE_QUALITY == "image_quality"
NORMAL_LED == "normal_led"
DEFAULT_NORMAL_LED_COLOR == "x00ff00"

BOOL_SETTINGS == {INDOOR_CHIME, INDOOR_DIGITAL_CHIME, OUTDOOR_CHIME,
                  MOTION_DETECTION}
BOOL_STRINGS == {Str("True"), Str("False")}
OUTDOOR_CHIME_VALUES == {Num(0), Num(1), Num(2)}
SPEAKER_VOLUME_VALUES == {Num(0), Num(1), Num(2)}
IMAGE_QUALITY_VALUES == {Num(0), Num(1), Num(2), Num(3)}
\* the chime files a device can play
CHIME_FILE_VALUES == {Num(0), Num(1)}
\* ERROR.INVALID_SETTING_VALUE
INVALID_SETTING_VALUE == "invalid setting value"

\* CONST.BASE_AUTH_DOMAIN in url or CONST.BASE_API_DOMAIN in url
IsApiHost(url) == url.ep \notin {"download", ""}

----------------------------------------------------------------------------
(* utils.py *)

Max(a, b) == IF a >= b THEN a ELSE b
Min(a, b) == IF a <= b THEN a ELSE b

\* an expiration whose margin is not clamped at zero
calculate_expiration_Unclamped(expires_in, slack, refresh_cycle, t) ==
    t + Min(expires_in - slack, refresh_cycle)

\* UTILS.calculate_expiration(expires_in, slack, refresh_cycle) at the instant t
calculate_expiration(expires_in, slack, refresh_cycle, t) ==
    t + Min(Max(expires_in - slack, 0), refresh_cycle)

\* a merge that overwrites the keys of dct with the values of dct_merge
update_Overwrite(dct, dct_merge) == dct_merge @@ dct

\* UTILS.update(dct, dct_merge): the recursive merge of two maps
RECURSIVE update(_, _)
update(dct, dct_merge) ==
    [key \in (DOMAIN dct) \cup (DOMAIN dct_merge) |->
        IF key \notin DOMAIN dct_merge THEN dct[key]
        ELSE IF key \in DOMAIN dct /\ IsDict(dct[key]) /\ IsDict(dct_merge[key])
             THEN Dict(update(dct[key].v, dct_merge[key].v))
             ELSE dct_merge[key]]

\* the base64 text of the snapshot image created at `t`, and b64decode
ImageOf(t) == IF t = 1 THEN "image1" ELSE "image2"
b64decode(text) == Bytes(<<"decoded", text>>)

\* pickle.dumps of the cache, and the file that holds it
Pickle(blob) == [t |-> "pickle", v |-> blob]
Absent == [t |-> "absent", v |-> EmptyMap]
File(content) == [t |-> "file", v |-> content]
\* a file of size 0
EmptyFile == File([t |-> "empty", v |-> EmptyMap])
\* pickle.load of the content of a file
Unpickle(file) == file.v.v
\* the file at `path`, when it is written and when it is removed
FileAt(files, path) == Get(files, path, Absent)
Written(files, path, file) ==
    [p \in DOMAIN files \cup {path} |-> IF p = path THEN file ELSE files[p]]
Removed(files, path) == [p \in DOMAIN files \ {path} |-> files[p]]

----------------------------------------------------------------------------
(* exceptions.py *)

AuthenticationException == "SkybellAuthenticationException"
UnknownResourceException == "SkybellUnknownResourceException"
RequestException == "SkybellRequestException"
BaseSkybellException == "SkybellException"

\* isinstance(ex, SkybellException)
IsSkybellException(ex) ==
    ex \in {AuthenticationException, UnknownResourceException,
            RequestException, BaseSkybellException}

----------------------------------------------------------------------------
(* Runs *)

\* the mutable part of the client, with the log of the running call
\* `srv` is what the server holds during the call, `in_login` tells that
\* async_login is running
Client(srv) ==
    [cache |-> cache, username |-> username, password |-> password,
     session |-> session, cache_path |-> cache_path, store |-> store,
     devices |-> devices, srv |-> srv, in_login |-> FALSE, log |-> <<>>]

Ret(st, value) == [st |-> st, res |-> [k |-> "ret", v |-> value]]
Raise(st, ex) == [st |-> st, res |-> [k |-> "exc", v |-> Str(ex)]]
\* raise ex(error, ...): an exception built with an error of helpers/errors.py
RaiseError(st, ex, error) ==
    [st |-> st,
     res |-> [k |-> "exc", v |-> [t |-> "str", v |-> ex, error |-> error]]]
Raised(run) == run.res.k = "exc"
RaisedEx(run, ex) == run.res.k = "exc" /\ run.res.v.v = ex

\* The events of the log:
\*   "login"     async_login is called
\*   "login_end" async_login ends: out is "True", "False" or "raised"
\*   "request"   a request to url is issued, with the Authorization token
\*               tok ("" when the header is absent), by async_login or not;
\*               out is the status of the answer or the error of the
\*               transport, body the body of the answer
\*   "update"    SkybellDevice.async_update of the device url.id is called
\*   "close"     close() of the session is called
Event(e, url, tok, out) ==
    [e |-> e, url |-> url, tok |-> tok, out |-> out,
     body |-> [ctype |-> "", val |-> NoneValue],
     by_login |-> FALSE]
Logged(st, ev) ==
    [st EXCEPT !.log = Append(@, [ev EXCEPT !.by_login = st.in_login])]

\* aiohttp ClientSession.close: the session is closed from then on
SessionClose(st) ==
    Logged([st EXCEPT !.session = "closed"], Event("close", NoUrl, "", ""))

----------------------------------------------------------------------------
(* The HTTP transport: aiohttp ClientSession.request *)

Tokens == {"t1", "t2"}
Lifetimes == 1..MaxLifetime

JsonBody(value) == [ctype |-> "application/json", val |-> value]
RawBody(bytes) == [ctype |-> "binary/octet-stream", val |-> Bytes(bytes)]
Envelope(value) == JsonBody(Dict(RESPONSE_DATA :> value))

LoginPayload(tok, lifetime) ==
    Dict(AUTHENTICATION_RESULT :>
            Dict((ID_TOKEN :> Str(tok)) @@ (REFRESH_TOKEN :> Str("r1"))
                 @@ (TOKEN_TYPE :> Str("Bearer"))
                 @@ (TOKEN_EXPIRATION :> Num(lifetime))))

\* What the server holds during one call: the token and lifetime it grants,
\* the device listing, the creation time of the snapshots, the activities of
\* a device, the download URL of a video ("" when it has none) and the
\* settings it answers a settings request with, the body it answers a user
\* request with, the fields of its answer to a refresh request and the image
\* of its snapshots.
BaseServer == [tok |-> "t1", life |-> MaxLifetime, rows |-> <<>>, snap |-> 1,
               acts |-> <<>>, dl |-> "", settings |-> EmptyMap,
               user |-> Envelope(Dict("account_id" :> Str("acct"))),
               refresh |-> {ID_TOKEN, TOKEN_TYPE, TOKEN_EXPIRATION},
               img |-> ImageOf(1)]
Grants == {[BaseServer EXCEPT !.tok = tok, !.life = life] :
              tok \in Tokens, life \in Lifetimes}

DeviceIds == {"d1", "d2"}
Names == {"n1", "n2"}
Row(id, name) == Dict((DEVICE_ID :> Str(id)) @@ (NAME :> Str(name)))
\* the device listings: none, d1 under either name, d1 and d2
Listings ==
    {<<>>, <<Row("d1", "n1"), Row("d2", "n1")>>}
    \cup {<<Row("d1", n)>> : n \in Names}

Activity(id, type, time, video) ==
    Dict((ACTIVITY_ID :> Str(id)) @@ (EVENT_TYPE :> Str(type))
         @@ (EVENT_TIME :> Num(time)) @@ (VIDEO_URL :> Str(video)))

\* the servers of the registry: every listing; a device has no activity, or
\* one with a video, whose download URL the server has or has not
Downloads ==
    {[acts |-> <<>>, dl |-> ""]}
    \cup {[acts |-> <<Activity("a1", "motion", 1, "v1")>>, dl |-> dl] :
             dl \in {"", "dl1"}}
RegistryServers ==
    {[BaseServer EXCEPT !.rows = rows, !.acts = d.acts, !.dl = d.dl] :
        rows \in Listings, d \in Downloads}

\* the event types of the activities, and the activity lists of at most
\* MaxActs activities; the id of an activity is its position in the list
EVENT_BUTTON == "device:sensor:button"
EVENT_MOTION == "device:sensor:motion"
EventTypes == {EVENT_BUTTON, EVENT_MOTION, "application:on-motion"}
ActivityLists ==
    {[i \in DOMAIN f |-> Activity(ToString(i), f[i][1], f[i][2], "")] :
        f \in UNION {[1..k -> EventTypes \X (1..MaxTime)] : k \in 0..MaxActs}}
\* the servers of one device whose activities have no video
EventServers ==
    {[BaseServer EXCEPT !.rows = <<Row("d1", "n1")>>, !.acts = acts] :
        acts \in ActivityLists}

\* the servers of one device whose snapshot has either creation time and
\* either image
SnapshotServers ==
    {[BaseServer EXCEPT !.rows = <<Row("d1", "n1")>>, !.snap = snap,
                        !.img = ImageOf(img)] :
        snap \in 1..2, img \in 1..2}

\* the servers of one device, listed with or without a settings fragment
SettingsRow(id, name) ==
    Dict((DEVICE_ID :> Str(id)) @@ (NAME :> Str(name))
         @@ (SETTINGS :> Dict(LED_COLOR :> Str("#00ff00"))))
SettingsServers ==
    {[BaseServer EXCEPT !.rows = <<row>>] :
        row \in {Row("d1", "n1"), SettingsRow("d1", "n1")}}

\* the servers of the bodies: the user request is answered with a JSON
\* object with or without "data", a JSON array, or bytes
UserBodies ==
    {Envelope(Dict("account_id" :> Str("acct"))),
     JsonBody(Dict("account_id" :> Str("acct"))),
     JsonBody(List(<<Str("acct")>>)),
     RawBody("acct")}
BodyServers == {[BaseServer EXCEPT !.user = body] : body \in UserBodies}

\* the fields of the answers to a refresh request: all of them, all but the
\* lifetime, the lifetime alone
RefreshAnswers ==
    {{ID_TOKEN, TOKEN_TYPE, TOKEN_EXPIRATION}, {ID_TOKEN, TOKEN_TYPE},
     {TOKEN_EXPIRATION}}
RefreshServers ==
    {[grant EXCEPT !.refresh = fields] :
        grant \in Grants, fields \in RefreshAnswers}

\* the body of the 200 answer of the endpoint
Body(srv, url) ==
    CASE url.ep = "login" -> Envelope(LoginPayload(srv.tok, srv.life))
      [] url.ep = "devices" -> Envelope(Dict(RESPONSE_ROWS :> List(srv.rows)))
      [] url.ep = "device" ->
            Envelope(Dict((DEVICE_ID :> Str(url.id)) @@ (NAME :> Str("n1"))))
      [] url.ep = "snapshot" ->
            Envelope(Dict((PREVIEW_CREATED_AT :> Num(srv.snap))
                          @@ (PREVIEW_IMAGE :> Str(srv.img))))
      [] url.ep = "activities" ->
            Envelope(Dict(RESPONSE_ROWS :> List(srv.acts)))
      [] url.ep = "video" ->
            Envelope(Dict(IF srv.dl = "" THEN EmptyMap
                          ELSE DOWNLOAD_URL :> Str(srv.dl)))
      [] url.ep = "download" -> RawBody("video")
      [] url.ep = "settings" -> Envelope(Dict(srv.settings))
      [] url.ep = "token" ->
            LET fields == (ID_TOKEN :> Str(srv.tok))
                          @@ (TOKEN_TYPE :> Str("Bearer"))
                          @@ (TOKEN_EXPIRATION :> Num(srv.life))
            IN Envelope(Dict([f \in srv.refresh |-> fields[f]]))
      [] OTHER -> srv.user

Response(status, body) == [kind |-> "response", status |-> status, body |-> body]
Failure(kind) == [kind |-> kind, status |-> 0, body |-> RawBody("")]

ErrorStatuses == {400, 401, 403, 404, 500}
Status(s) == ToString(s)
AllFaults == {Status(s) : s \in ErrorStatuses} \cup {"ClientError", "TimeoutError"}

\* what self._session.request can do: answer, or raise a ClientError
\* (connection failure), or raise asyncio's TimeoutError; on a closed
\* session it raises RuntimeError
Transport(st, url) ==
    IF st.session = "closed" THEN {Failure("RuntimeError")}
    \* aiohttp rejects the empty URL with InvalidURL, a ClientError
    ELSE IF url = EMPTY_URL THEN {Failure("ClientError")}
    ELSE {Response(200, Body(st.srv, url))}
         \cup {Response(s, RawBody("")) : s \in {e \in ErrorStatuses : Status(e) \in faults}}
         \cup {Failure(f) : f \in {"ClientError", "TimeoutError"} \cap faults}

Outcome(o) == IF o.kind = "response" THEN Status(o.status) ELSE o.kind

----------------------------------------------------------------------------
(* Skybell: the cache *)

\* Skybell.cache(key)
CacheGet(st, key) == Get(st.cache, key, Str(""))

\* Skybell._async_save_cache
SaveCache(st) ==
    IF ~disable_cache
    THEN [st EXCEPT !.store = Written(@, st.cache_path, File(Pickle(st.cache)))]
    ELSE st

\* an update that saves the cache before it merges the data
async_update_cache_SaveFirst(st, data) ==
    [SaveCache(st) EXCEPT !.cache = update(@, data)]

\* Skybell.async_update_cache
async_update_cache(st, data) ==
    SaveCache([st EXCEPT !.cache = update(@, data)])

AuthMaterial(st) == CacheGet(st, AUTHENTICATION_RESULT).v

\* a load that does not save the cache it has loaded
_async_load_cache_NoWriteBack(st) ==
    LET file == FileAt(st.store, st.cache_path) IN
    IF disable_cache \/ file = Absent THEN st
    ELSE IF file # EmptyFile
         THEN [st EXCEPT !.cache = update(@, Unpickle(file))]
         ELSE [st EXCEPT !.store = Removed(@, st.cache_path)]

\* Skybell._async_load_cache
_async_load_cache(st) ==
    LET file == FileAt(st.store, st.cache_path)
        loaded ==
            IF disable_cache \/ file = Absent THEN st
            ELSE IF file # EmptyFile
                 THEN [st EXCEPT !.cache = update(@, Unpickle(file))]
                 ELSE [st EXCEPT !.store = Removed(@, st.cache_path)]
    IN SaveCache(loaded)

\* Skybell.async_delete_cache
async_delete_cache(st) ==
    IF FileAt(st.store, st.cache_path) # Absent
    THEN {Ret([st EXCEPT !.store = Removed(@, st.cache_path),
                         !.cache_path = CACHE_PATH],
              NoneValue)}
    ELSE {Ret(st, NoneValue)}

----------------------------------------------------------------------------
(* Skybell.async_login and Skybell.async_send_request *)

RECURSIVE async_login(_, _, _), async_send_request(_, _, _, _)

\* the part of async_login after the login request has returned `response`
LoginStore(st, response) ==
    IF ~(IsDict(response) /\ AUTHENTICATION_RESULT \in DOMAIN response.v)
    THEN Raise(st, "KeyError")
    ELSE LET auth_result == response.v[AUTHENTICATION_RESULT].v IN
         IF TOKEN_EXPIRATION \notin DOMAIN auth_result
         THEN Raise(st, "KeyError")
         ELSE LET expires_in == auth_result[TOKEN_EXPIRATION].v
                  expiration == calculate_expiration(
                      expires_in, EXPIRATION_SLACK, REFRESH_CYCLE, now)
                  stored == auth_result @@ (EXPIRATION_DATE :> Num(expiration))
              IN Ret(async_update_cache(
                         st, AUTHENTICATION_RESULT :> Dict(stored)),
                     Bool(TRUE))

\* what async_login does with the run of its login request
LoginOutcome(run) ==
    IF Raised(run)
    THEN IF IsSkybellException(run.res.v.v) THEN run
         ELSE Ret(run.st, Bool(FALSE))
    ELSE LoginStore(run.st, run.res.v)

\* the end of async_login in the log
LoginEnd(run) ==
    [run EXCEPT !.st = Logged([@ EXCEPT !.in_login = FALSE],
                              Event("login_end", LOGIN_URL, "",
                                    IF Raised(run) THEN "raised"
                                    ELSE IF run.res.v.v THEN "True"
                                    ELSE "False"))]

\* a login whose request is retried unless another login called it
async_login_Retry(st, user, pass) ==
    LET s0 == Logged(st, Event("login", LOGIN_URL, "", ""))
        s1 == [s0 EXCEPT !.username = IF user # None THEN user ELSE @,
                         !.password = IF pass # None THEN pass ELSE @]
    IN IF s1.username = None \/ s1.password = None
       THEN {LoginEnd(Raise(s1, AuthenticationException))}
       ELSE LET s2 == async_update_cache(
                          [s1 EXCEPT !.in_login = TRUE],
                          AUTHENTICATION_RESULT :> EmptyDict)
            IN {LoginEnd(LoginOutcome(run)) :
                    run \in async_send_request(s2, LOGIN_URL, "",
                                               ~st.in_login)}

async_login(st, user, pass) ==
    LET s0 == Logged(st, Event("login", LOGIN_URL, "", ""))
        s1 == [s0 EXCEPT !.username = IF user # None THEN user ELSE @,
                         !.password = IF pass # None THEN pass ELSE @]
    IN IF s1.username = None \/ s1.password = None
       THEN {LoginEnd(Raise(s1, AuthenticationException))}
       ELSE LET s2 == async_update_cache(
                          [s1 EXCEPT !.in_login = TRUE],
                          AUTHENTICATION_RESULT :> EmptyDict)
            IN {LoginEnd(LoginOutcome(run)) :
                    run \in async_send_request(s2, LOGIN_URL, "", FALSE)}

\* a header that carries the stored token to every host
AuthHeader_AnyHost(st, url, headers) ==
    LET auth_result == AuthMaterial(st)
        token == Get(auth_result, ID_TOKEN, Str("")).v
        token_type == Get(auth_result, TOKEN_TYPE, Str("")).v
    IN IF token # "" /\ token_type # "" THEN token ELSE headers

\* the Authorization header of the request: `headers` is the caller's
AuthHeader(st, url, headers) ==
    IF IsApiHost(url)
    THEN LET auth_result == AuthMaterial(st)
             token == Get(auth_result, ID_TOKEN, Str("")).v
             token_type == Get(auth_result, TOKEN_TYPE, Str("")).v
         IN IF token # "" /\ token_type # "" THEN token ELSE headers
    ELSE headers

\* the value async_send_request returns for a successful response
ParseBody(body) ==
    IF IsDict(body.val) THEN Get(body.val.v, RESPONSE_DATA, EmptyDict)
    ELSE body.val

\* a handler that retries a second time when the retry raised SkybellException
OnClientError_RetryTwice(st, url, headers, retry) ==
    IF retry
    THEN UNION {IF Raised(run) THEN {run}
                ELSE UNION {IF RaisedEx(again, BaseSkybellException)
                            THEN async_send_request(again.st, url, headers,
                                                    FALSE)
                            ELSE {again} :
                               again \in async_send_request(
                                             run.st, url, headers, FALSE)} :
                    run \in async_login(st, None, None)}
    ELSE {Raise(st, BaseSkybellException)}

\* the `except ClientError` handler of async_send_request
OnClientError(st, url, headers, retry) ==
    IF retry
    THEN UNION {IF Raised(run) THEN {run}
                ELSE async_send_request(run.st, url, headers, FALSE) :
                    run \in async_login(st, None, None)}
    ELSE {Raise(st, BaseSkybellException)}

\* a try block that gives up at the first ClientError
OnAnswer_FailFast(st, url, headers, retry, o) ==
    CASE o.kind = "ClientError" -> {Raise(st, BaseSkybellException)}
      [] o.kind \in {"TimeoutError", "RuntimeError"} -> {Raise(st, o.kind)}
      [] o.status = 401 \/ (o.status = 403 /\ LOGIN_URL = url) ->
            {Raise(async_update_cache(st, AUTHENTICATION_RESULT :> EmptyDict),
                   AuthenticationException)}
      [] o.status \in {403, 404} -> {Raise(st, UnknownResourceException)}
      [] o.status = 400 -> {Raise(st, RequestException)}
      [] o.status >= 400 -> OnClientError(st, url, headers, retry)
      [] OTHER -> {Ret(st, ParseBody(o.body))}

\* the try block of async_send_request for one answer `o` of the transport
OnAnswer(st, url, headers, retry, o) ==
    CASE o.kind = "ClientError" -> OnClientError(st, url, headers, retry)
      [] o.kind \in {"TimeoutError", "RuntimeError"} -> {Raise(st, o.kind)}
      [] o.status = 401 \/ (o.status = 403 /\ LOGIN_URL = url) ->
            {Raise(async_update_cache(st, AUTHENTICATION_RESULT :> EmptyDict),
                   AuthenticationException)}
      [] o.status \in {403, 404} -> {Raise(st, UnknownResourceException)}
      [] o.status = 400 -> {Raise(st, RequestException)}
      \* response.raise_for_status() raises ClientResponseError, a ClientError
      [] o.status >= 400 -> OnClientError(st, url, headers, retry)
      [] OTHER -> {Ret(st, ParseBody(o.body))}

\* a dispatcher that takes a 404 answer for a connection failure
SendRequest_RetryOn404(st, url, headers, retry) ==
    LET hdr == AuthHeader(st, url, headers) IN
    UNION {OnAnswer(Logged(st, [Event("request", url, hdr, Outcome(o))
                                    EXCEPT !.body = o.body]),
                    url, hdr, retry,
                    IF o.status = 404 THEN Failure("ClientError") ELSE o) :
              o \in Transport(st, url)}

\* async_send_request once the implicit login, if any, is done
SendRequest(st, url, headers, retry) ==
    LET hdr == AuthHeader(st, url, headers) IN
    UNION {OnAnswer(Logged(st, [Event("request", url, hdr, Outcome(o))
                                    EXCEPT !.body = o.body]),
                    url, hdr, retry, o) :
              o \in Transport(st, url)}

\* a dispatcher that never logs in before its request
async_send_request_NoImplicitLogin(st, url, headers, retry) ==
    SendRequest(st, url, headers, retry)

async_send_request(st, url, headers, retry) ==
    IF Size(AuthMaterial(st)) = 0 /\ url # LOGIN_URL
    THEN UNION {IF Raised(run) THEN {run}
                ELSE IF run.res.v = Bool(FALSE)
                     THEN {Raise(run.st, AuthenticationException)}
                     ELSE SendRequest(run.st, url, headers, retry) :
                    run \in async_login(st, None, None)}
    ELSE SendRequest(st, url, headers, retry)

----------------------------------------------------------------------------
(* Skybell.async_logout *)

\* a logout that keeps the devices
async_logout_KeepDevices(st) ==
    LET s1 == IF Size(AuthMaterial(st)) > 0
              THEN [st EXCEPT !.session = IF close_session THEN "closed" ELSE @]
              ELSE st
    IN {Ret(async_update_cache(s1, AUTHENTICATION_RESULT :> EmptyDict),
            Bool(TRUE))}

async_logout(st) ==
    LET s1 == IF Size(AuthMaterial(st)) > 0
              THEN [(IF close_session THEN SessionClose(st) ELSE st)
                       EXCEPT !.devices = EmptyMap]
              ELSE st
    IN {Ret(async_update_cache(s1, AUTHENTICATION_RESULT :> EmptyDict),
            Bool(TRUE))}

\* Skybell.__aexit__
__aexit__(st) ==
    {Ret(IF close_session THEN SessionClose(st) ELSE st, NoneValue)}

----------------------------------------------------------------------------
(* Skybell.async_refresh_session *)

\* a refresh that stores the answer in place of the AuthenticationResult
RefreshStore_Replace(st, response) ==
    IF ~IsDict(response) THEN Raise(st, "TypeError")
    ELSE IF TOKEN_EXPIRATION \notin DOMAIN response.v THEN Raise(st, "KeyError")
    ELSE LET expires_in == response.v[TOKEN_EXPIRATION].v
             expiration == calculate_expiration(
                 expires_in, EXPIRATION_SLACK, REFRESH_CYCLE, now)
             auth_result == (EXPIRATION_DATE :> Num(expiration)) @@ response.v
         IN Ret([st EXCEPT !.cache[AUTHENTICATION_RESULT] = Dict(auth_result)],
                Bool(TRUE))

\* the part of async_refresh_session after the request has returned `response`
RefreshStore(st, response) ==
    IF ~IsDict(response) THEN Raise(st, "TypeError")
    ELSE IF TOKEN_EXPIRATION \notin DOMAIN response.v THEN Raise(st, "KeyError")
    ELSE LET expires_in == response.v[TOKEN_EXPIRATION].v
             expiration == calculate_expiration(
                 expires_in, EXPIRATION_SLACK, REFRESH_CYCLE, now)
             auth_result == update(AuthMaterial(st),
                                   (EXPIRATION_DATE :> Num(expiration))
                                   @@ response.v)
         IN Ret(async_update_cache(
                    [st EXCEPT !.cache[AUTHENTICATION_RESULT] =
                                   Dict(auth_result)],
                    AUTHENTICATION_RESULT :> Dict(auth_result)),
                Bool(TRUE))

\* Skybell.session_refresh_period
session_refresh_period(st) ==
    LET auth_result == AuthMaterial(st)
    IN IF DOMAIN auth_result # {}
       THEN Get(auth_result, TOKEN_EXPIRATION, Num(0)).v
       ELSE 0

async_refresh_session(st) ==
    LET auth_result == AuthMaterial(st)
        refresh_token == Get(auth_result, REFRESH_TOKEN, Str("")).v
    IN IF refresh_token = ""
       THEN {Raise(st, AuthenticationException)}
       ELSE {IF Raised(run) THEN Ret(run.st, Bool(FALSE))
             ELSE RefreshStore(run.st, run.res.v) :
                run \in async_send_request(st, REFRESH_TOKEN_URL, "", FALSE)}

----------------------------------------------------------------------------
(* SkybellDevice *)

\* runs continue with `F` unless they have raised
Then(runs, F(_)) == UNION {IF Raised(run) THEN {run} ELSE F(run) : run \in runs}

\* SkybellDevice.__init__
NewDevice(device_json) ==
    [device_id |-> Get(device_json, DEVICE_ID, Str("")).v,
     device_json |-> device_json,
     snapshot_json |-> EmptyMap,
     activities |-> <<>>,
     events |-> <<>>,
     images |-> (ACTIVITY :> NoneValue)]

\* the position of the entry of `event_type` in the events, 0 when absent;
\* the events are kept in the insertion order of the dict _events
EventIndex(events, event_type) ==
    LET at == {i \in 1..Len(events) : events[i].v[EVENT_TYPE] = event_type}
    IN IF at = {} THEN 0 ELSE CHOOSE i \in at : TRUE

\* a loop body that keeps the stored entry when the times are equal
PutEvent_KeepOnTie(events, activity) ==
    LET i == EventIndex(events, activity.v[EVENT_TYPE]) IN
    IF i = 0 THEN Append(events, activity)
    ELSE IF activity.v[EVENT_TIME].v > events[i].v[EVENT_TIME].v
         THEN [events EXCEPT ![i] = activity]
         ELSE events

\* the body of the loop of SkybellDevice._async_update_events
PutEvent(events, activity) ==
    LET i == EventIndex(events, activity.v[EVENT_TYPE]) IN
    IF i = 0 THEN Append(events, activity)
    ELSE IF activity.v[EVENT_TIME].v >= events[i].v[EVENT_TIME].v
         THEN [events EXCEPT ![i] = activity]
         ELSE events

\* SkybellDevice._async_update_events
RECURSIVE async_update_events(_, _)
async_update_events(events, activities) ==
    IF activities = <<>> THEN events
    ELSE async_update_events(PutEvent(events, Head(activities)),
                             Tail(activities))

\* a loop that ends with the last of the events
LatestFrom_Last(latest, events) ==
    IF events = <<>> THEN latest ELSE events[Len(events)]

\* SkybellDevice.latest() without an event filter: the loop over the events
RECURSIVE LatestFrom(_, _)
LatestFrom(latest, events) ==
    IF events = <<>> THEN latest
    ELSE LET evt == Head(events) IN
         LatestFrom(IF Size(latest.v) = 0
                       \/ latest.v[EVENT_TIME].v < evt.v[EVENT_TIME].v
                    THEN evt ELSE latest,
                    Tail(events))

Latest(device) == LatestFrom(EmptyDict, device.events)

\* self._events.get(key, default)
EventsGet(events, key, default) ==
    LET i == EventIndex(events, Str(key)) IN
    IF i = 0 THEN default ELSE events[i]

\* ciso8601.parse_datetime, which takes a string only
parse_datetime(x) ==
    IF x.t = "str" THEN [t |-> "datetime", v |-> x.v] ELSE Str("TypeError")

EPOCH == "1970-01-01T00:00:00.000Z"

\* SkybellDevice.latest(event): what it returns or raises
latest(device, event) ==
    IF event \notin {None, ""}
    THEN LET sensor == EventsGet(device.events, "device:sensor:" \o event,
                                 EmptyDict)
             _default == Dict(EVENT_TIME :> Str(EPOCH))
             _evt == IF Size(sensor.v) = 0
                     THEN EventsGet(device.events, "application:on-" \o event,
                                    _default)
                     ELSE sensor
             parsed == parse_datetime(_evt.v[EVENT_TIME])
         IN IF parsed = Str("TypeError")
            THEN [k |-> "exc", v |-> parsed]
            ELSE [k |-> "ret", v |-> Dict((EVENT_TIME :> parsed) @@ _evt.v)]
    ELSE [k |-> "ret", v |-> Latest(device)]

\* the end of SkybellDevice._async_update_activities: the activity image
ActivityImage(st, id) ==
    LET video == Get(Latest(st.devices[id]).v, VIDEO_URL, Str("")).v IN
    IF video = "" THEN {Ret(st, NoneValue)}
    ELSE Then(async_send_request(st, VideoUrl(video), "", TRUE),
              LAMBDA found :
                 IF ~IsDict(found.res.v) THEN {Raise(found.st, "AttributeError")}
                 ELSE LET url == Get(found.res.v.v, DOWNLOAD_URL, Str("")).v IN
                      IF url = ""
                      THEN Then(async_send_request(found.st, EMPTY_URL, "", TRUE),
                                LAMBDA got : {Ret(
                                    [got.st EXCEPT !.devices[id].images =
                                        (ACTIVITY :> got.res.v) @@ @],
                                    NoneValue)})
                      ELSE {Ret(found.st, NoneValue)})

\* SkybellDevice._async_update_activities
async_update_activities(st, id) ==
    Then(async_send_request(st, DEVICE_ACTIVITIES_URL(id), "", TRUE),
         LAMBDA run :
            IF ~IsDict(run.res.v) THEN {Raise(run.st, "AttributeError")}
            ELSE LET rows == Get(run.res.v.v, RESPONSE_ROWS, List(<<>>)).v
                     device == run.st.devices[id]
                     s1 == [run.st EXCEPT !.devices[id] =
                              [device EXCEPT
                                 !.activities = rows,
                                 !.events = async_update_events(@, rows)]]
                 IN ActivityImage(s1, id))

\* a snapshot part that decodes the image of every snapshot it fetches
UpdateSnapshot_AlwaysDecode(st, id, snapshot_json) ==
    Then(async_send_request(st, DEVICE_SNAPSHOT_URL(id), "", TRUE),
         LAMBDA run :
            LET result == run.res.v
                device == run.st.devices[id]
            IN IF ~(IsDict(result) /\ PREVIEW_CREATED_AT \in DOMAIN result.v)
               THEN {Raise(run.st, "KeyError")}
               ELSE {Ret([run.st EXCEPT !.devices[id] =
                            [device EXCEPT
                               !.images =
                                  (SNAPSHOT :> b64decode(result.v[PREVIEW_IMAGE].v))
                                  @@ @,
                               !.snapshot_json =
                                   update(result.v, snapshot_json)]],
                         NoneValue)})

\* the snapshot part of SkybellDevice.async_update
UpdateSnapshot(st, id, snapshot_json) ==
    Then(async_send_request(st, DEVICE_SNAPSHOT_URL(id), "", TRUE),
         LAMBDA run :
            LET result == run.res.v
                device == run.st.devices[id]
            IN IF ~(IsDict(result) /\ PREVIEW_CREATED_AT \in DOMAIN result.v)
               THEN {Raise(run.st, "KeyError")}
               ELSE LET images ==
                          IF result.v[PREVIEW_CREATED_AT]
                               # Get(device.snapshot_json, PREVIEW_CREATED_AT,
                                     NoneValue)
                          THEN (SNAPSHOT :> b64decode(result.v[PREVIEW_IMAGE].v))
                               @@ device.images
                          ELSE device.images
                    IN {Ret([run.st EXCEPT !.devices[id] =
                               [device EXCEPT
                                  !.images = images,
                                  !.snapshot_json =
                                      update(result.v, snapshot_json)]],
                            NoneValue)})

\* a device part that takes the device id from the merged record
UpdateDeviceJson_RenamesDevice(st, id, device_json, refresh, get_devices) ==
    LET merged == update(st.devices[id].device_json, device_json) IN
    {Ret([st EXCEPT !.devices[id].device_json = merged,
                    !.devices[id].device_id =
                        Get(merged, DEVICE_ID, Str("")).v],
         NoneValue)}

\* the device part of SkybellDevice.async_update
UpdateDeviceJson(st, id, device_json, refresh, get_devices) ==
    IF refresh \/ Size(device_json) > 0 \/ Size(st.devices[id].device_json) = 0
    THEN IF get_devices
         THEN Then(async_send_request(st, DEVICE_URL(id), "", TRUE),
                   LAMBDA run :
                      IF ~IsDict(run.res.v) THEN {Raise(run.st, "AttributeError")}
                      ELSE {Ret([run.st EXCEPT !.devices[id].device_json =
                                    update(@, run.res.v.v)],
                                NoneValue)})
         ELSE {Ret([st EXCEPT !.devices[id].device_json = update(@, device_json)],
                   NoneValue)}
    ELSE {Ret(st, NoneValue)}

\* SkybellDevice.async_update of the device `id` of the registry; a map
\* argument that is not given (None) is the empty map
async_update(st, id, device_json, snapshot_json, refresh, get_devices) ==
    Then(Then(UpdateDeviceJson(
                  Logged(st, Event("update", DEVICE_URL(id), "", "")),
                  id, device_json, refresh, get_devices),
              LAMBDA run :
                 IF refresh \/ Size(snapshot_json) > 0
                    \/ Size(run.st.devices[id].snapshot_json) = 0
                 THEN UpdateSnapshot(run.st, id, snapshot_json)
                 ELSE {run}),
         LAMBDA run :
            IF refresh THEN async_update_activities(run.st, id) ELSE {run})

----------------------------------------------------------------------------
(* SkybellDevice.async_set_setting *)

\* Python's == on two values: a bool is the integer 0 or 1
IntOf(x) == IF x.t = "bool" THEN (IF x.v THEN 1 ELSE 0) ELSE x.v
IsInt(x) == x.t \in {"int", "bool"}
PyEq(a, b) ==
    IF IsInt(a) /\ IsInt(b) THEN IntOf(a) = IntOf(b)
    ELSE a.t = b.t /\ a = b
\* value in values
PyIn(value, values) == \E member \in values : PyEq(value, member)

\* "{:02x}".format(n)
HexDigit == <<"0", "1", "2", "3", "4", "5", "6", "7",
              "8", "9", "a", "b", "c", "d", "e", "f">>
RECURSIVE HexDigits(_)
HexDigits(n) ==
    IF n < 16 THEN HexDigit[n + 1]
    ELSE HexDigits(n \div 16) \o HexDigit[(n % 16) + 1]
Format02x(n) ==
    IF n < 0 THEN "-" \o HexDigits(0 - n)
    ELSE IF n < 16 THEN "0" \o HexDigits(n)
    ELSE HexDigits(n)
\* "#{0:02x}{1:02x}{2:02x}".format(value[0], value[1], value[2])
RgbValue(value) ==
    "#" \o Format02x(IntOf(value[1])) \o Format02x(IntOf(value[2]))
        \o Format02x(IntOf(value[3]))

\* the colour components of the model and the colours made of them
Components == {0, 255}
Colors == {<<Num(r), Num(g), Num(b)>> : r \in Components, g \in Components,
                                         b \in Components}
\* SkybellDevice.led_color: the components of the stored hex string
led_color(device) ==
    LET settings_json == Get(device.device_json, SETTINGS, EmptyDict).v
        hex_string == Get(settings_json, LED_COLOR, Str("")).v
    IN IF hex_string = "" THEN <<Num(0), Num(0), Num(0)>>
       ELSE IF \E rgb \in Colors : RgbValue(rgb) = hex_string
            THEN CHOOSE rgb \in Colors : RgbValue(rgb) = hex_string
            ELSE <<>>

\* a validation that does not check the image quality
_validate_setting_NoImageQuality(setting, value) ==
    /\ setting \in BOOL_SETTINGS => PyIn(value, BOOL_STRINGS)
    /\ setting = OUTDOOR_CHIME_VOLUME => PyIn(value, OUTDOOR_CHIME_VALUES)
    /\ setting = SPEAKER_VOLUME => PyIn(value, SPEAKER_VOLUME_VALUES)
    /\ setting = CHIME_FILE => PyIn(value, CHIME_FILE_VALUES)
    /\ setting = OUTDOOR_CHIME_FILE => PyIn(value, CHIME_FILE_VALUES)

\* _validate_setting(setting, value) returns, and does not raise
_validate_setting(setting, value) ==
    /\ setting \in BOOL_SETTINGS => PyIn(value, BOOL_STRINGS)
    /\ setting = OUTDOOR_CHIME_VOLUME => PyIn(value, OUTDOOR_CHIME_VALUES)
    /\ setting = SPEAKER_VOLUME => PyIn(value, SPEAKER_VOLUME_VALUES)
    /\ setting = CHIME_FILE => PyIn(value, CHIME_FILE_VALUES)
    /\ setting = OUTDOOR_CHIME_FILE => PyIn(value, CHIME_FILE_VALUES)
    /\ setting = IMAGE_QUALITY => PyIn(value, IMAGE_QUALITY_VALUES)

\* the server takes the settings of the POST request and answers with them
Posted(st, settings) == [st EXCEPT !.srv.settings = settings]

\* the end of _async_set_setting: `result` is merged into the settings that
\* device_json.get(SETTINGS, {}) returns, a new dict when the key is absent
MergeSettings(st, id, result) ==
    IF result = NoneValue THEN {Ret(st, NoneValue)}
    ELSE IF ~IsDict(result) THEN {Raise(st, "AttributeError")}
    ELSE IF SETTINGS \in DOMAIN st.devices[id].device_json
         THEN {Ret([st EXCEPT !.devices[id].device_json[SETTINGS] =
                       Dict(update(@.v, result.v))],
                   NoneValue)}
         ELSE {Ret(st, NoneValue)}

\* SkybellDevice._async_set_setting
_async_set_setting(st, id, settings) ==
    IF \E key \in DOMAIN settings : ~_validate_setting(key, settings[key])
    THEN {RaiseError(st, BaseSkybellException, INVALID_SETTING_VALUE)}
    ELSE UNION {IF Raised(run)
                THEN IF IsSkybellException(run.res.v.v)
                     THEN MergeSettings(run.st, id, NoneValue)
                     ELSE {run}
                ELSE MergeSettings(run.st, id, run.res.v) :
                   run \in async_send_request(
                               Posted(st, settings), DEVICE_SETTINGS_URL(id),
                               "", TRUE)}

async_set_setting(st, id, key, value) ==
    IF key = LED_COLOR
    THEN IF value.t # "list" \/ \E i \in DOMAIN value.v : ~IsInt(value.v[i])
         THEN {Raise(st, BaseSkybellException)}
         ELSE IF Len(value.v) < 3 THEN {Raise(st, "IndexError")}
         ELSE _async_set_setting(st, id, LED_COLOR :> Str(RgbValue(value.v)))
    ELSE IF key = NORMAL_LED
    THEN IF value.t # "bool" THEN {Raise(st, BaseSkybellException)}
         ELSE IF value.v
         THEN LET rgb == led_color(st.devices[id]) IN
              IF Len(rgb) < 3 THEN {Raise(st, "IndexError")}
              ELSE _async_set_setting(st, id, LED_COLOR :> Str(RgbValue(rgb)))
         ELSE _async_set_setting(st, id, LED_COLOR :> Str(""))
    ELSE _async_set_setting(st, id, key :> value)

----------------------------------------------------------------------------
(* Skybell.async_get_devices and Skybell.async_get_device *)

\* the value of a call that returns devices
DevicesValue(devs) == [t |-> "devices", v |-> devs]

\* one turn of the loop of async_get_devices, for the row device_json
GetDevicesRow(st, device_json) ==
    LET id == device_json.v[DEVICE_ID].v IN
    IF id \in DOMAIN st.devices
    THEN async_update(st, id, id :> device_json, EmptyMap, TRUE, FALSE)
    ELSE LET device == NewDevice(device_json.v) IN
         {Ret([st EXCEPT !.devices = (device.device_id :> device) @@ @],
              NoneValue)}

\* the loop of async_get_devices over the rows that remain
RECURSIVE GetDevicesRows(_, _)
GetDevicesRows(st, response_rows) ==
    IF response_rows = <<>> THEN {Ret(st, NoneValue)}
    ELSE Then(GetDevicesRow(st, Head(response_rows)),
              LAMBDA run : GetDevicesRows(run.st, Tail(response_rows)))

\* a listing that forgets the devices before it fetches them
async_get_devices_Replace(st, refresh) ==
    Then(IF refresh \/ Size(st.devices) = 0
         THEN Then(async_send_request(st, DEVICES_URL, "", TRUE),
                   LAMBDA run :
                      IF ~(IsDict(run.res.v)
                           /\ RESPONSE_ROWS \in DOMAIN run.res.v.v)
                      THEN {Raise(run.st, "KeyError")}
                      ELSE GetDevicesRows([run.st EXCEPT !.devices = EmptyMap],
                                          run.res.v.v[RESPONSE_ROWS].v))
         ELSE {Ret(st, NoneValue)},
         LAMBDA run : {Ret(run.st, DevicesValue(run.st.devices))})

\* Skybell.async_get_devices
async_get_devices(st, refresh) ==
    Then(IF refresh \/ Size(st.devices) = 0
         THEN Then(async_send_request(st, DEVICES_URL, "", TRUE),
                   LAMBDA run :
                      IF ~(IsDict(run.res.v)
                           /\ RESPONSE_ROWS \in DOMAIN run.res.v.v)
                      THEN {Raise(run.st, "KeyError")}
                      ELSE GetDevicesRows(run.st, run.res.v.v[RESPONSE_ROWS].v))
         ELSE {Ret(st, NoneValue)},
         LAMBDA run : {Ret(run.st, DevicesValue(run.st.devices))})

\* async_get_device once the registry is loaded
FindDevice(st, device_id, refresh) ==
    IF device_id \notin DOMAIN st.devices
    THEN {Raise(st, BaseSkybellException)}
    ELSE Then(IF refresh
              THEN async_update(st, device_id, EmptyMap, EmptyMap, TRUE, FALSE)
              ELSE {Ret(st, NoneValue)},
              LAMBDA run :
                 {Ret(run.st, DevicesValue(
                         device_id :> run.st.devices[device_id]))})

\* a lookup that keeps `refresh` when it had to load the registry
async_get_device_KeepRefresh(st, device_id, refresh) ==
    IF Size(st.devices) = 0
    THEN UNION {IF Raised(run) THEN {Raise(run.st, BaseSkybellException)}
                ELSE FindDevice(run.st, device_id, refresh) :
                    run \in async_get_devices(st, FALSE)}
    ELSE FindDevice(st, device_id, refresh)

async_get_device(st, device_id, refresh) ==
    IF Size(st.devices) = 0
    THEN UNION {IF Raised(run) THEN {Raise(run.st, BaseSkybellException)}
                ELSE FindDevice(run.st, device_id, FALSE) :
                    run \in async_get_devices(st, FALSE)}
    ELSE FindDevice(st, device_id, refresh)

----------------------------------------------------------------------------
(* Skybell.async_initialize *)

\* the user request of async_initialize and what follows it
InitializeUser(st, get_devices) ==
    UNION {IF Raised(run)
           THEN IF IsSkybellException(run.res.v.v) THEN {run}
                ELSE {Ret(run.st, DevicesValue(EmptyMap))}
           ELSE IF run.res.v # NoneValue /\ get_devices
                THEN {IF Raised(listed)
                      THEN Ret(listed.st, DevicesValue(EmptyMap))
                      ELSE listed :
                         listed \in async_get_devices(run.st, FALSE)}
                ELSE {Ret(run.st, DevicesValue(EmptyMap))} :
              run \in async_send_request(st, USER_URL, "", TRUE)}

\* auto_login and get_devices are the arguments the client was built with
async_initialize(st, auto_login, get_devices) ==
    LET s1 == IF ~disable_cache THEN _async_load_cache(st) ELSE st
    IN IF s1.username # None /\ s1.password # None /\ auto_login
       THEN Then(async_login(s1, None, None),
                 LAMBDA run : InitializeUser(run.st, get_devices))
       ELSE InitializeUser(s1, get_devices)

----------------------------------------------------------------------------
(* The public calls as actions *)

NoArgs == [url |-> NoUrl, retry |-> FALSE, id |-> "", refresh |-> FALSE,
           user |-> None, pass |-> None, event |-> None,
           key |-> "", value |-> NoneValue,
           auto_login |-> FALSE, get_devices |-> FALSE, data |-> EmptyMap]

\* the client state a call starts from
Before == [cache |-> cache, username |-> username, password |-> password,
           session |-> session, cache_path |-> cache_path, store |-> store,
           devices |-> devices]

\* the number of requests of a log that async_login did not issue
Fetches(log) ==
    Cardinality({i \in 1..Len(log) :
                    log[i].e = "request" /\ ~log[i].by_login})

\* what the next call keeps of a call: of a device listing that was not
\* forced and that returned, the number of its requests
NoPrev == [op |-> "other", fetches |-> 0]
Prev(call) ==
    IF call.op = "get_devices" /\ ~call.args.refresh /\ call.res.k = "ret"
    THEN [op |-> call.op, fetches |-> Fetches(call.log)]
    ELSE NoPrev

\* The tasks of the event loop that run async_send_request on the client:
\* the position of the coroutine (pc), its arguments, the caller of the login
\* it is in (why) and what it or its login ended with (res)
TaskIds == {1, 2}
NoTask == [pc |-> "idle", url |-> NoUrl, retry |-> FALSE, why |-> "", res |-> ""]
NoTasks == [i \in TaskIds |-> NoTask]

\* no call has been made since the caller took the result of `call`
IdleAfter(prev) ==
    [op |-> "idle", args |-> NoArgs, before |-> Before, at |-> now,
     prev |-> prev,
     res |-> [k |-> "ret", v |-> NoneValue], log |-> <<>>]

\* the call `op(args)` ran as `run`: the client takes the state of the run
Call(op, args, run) ==
    /\ cache' = run.st.cache
    /\ username' = run.st.username
    /\ password' = run.st.password
    /\ session' = run.st.session
    /\ cache_path' = run.st.cache_path
    /\ store' = run.st.store
    /\ devices' = run.st.devices
    /\ last' = [op |-> op, args |-> args, before |-> Before, at |-> now,
                prev |-> last.prev,
                res |-> run.res, log |-> run.st.log]
    /\ UNCHANGED <<close_session, disable_cache, now, faults, servers,
                   tasks>>

Login ==
    /\ last.op = "idle"
    /\ \E user \in {None, "user"}, pass \in {None, "secret"} :
        \E srv \in servers :
          \E run \in async_login(Client(srv), user, pass) :
            Call("login", [NoArgs EXCEPT !.user = user, !.pass = pass], run)

Logout ==
    /\ last.op = "idle"
    /\ \E run \in async_logout(Client(BaseServer)) :
          Call("logout", NoArgs, run)

SendUrls == {LOGIN_URL, USER_URL, DOWNLOAD_HOST_URL}

Send ==
    /\ last.op = "idle"
    /\ \E url \in SendUrls, retry \in BOOLEAN :
        \E srv \in servers :
          \E run \in async_send_request(Client(srv), url, "", retry) :
            Call("send", [NoArgs EXCEPT !.url = url, !.retry = retry], run)

ListDevices ==
    /\ last.op = "idle"
    /\ \E refresh \in BOOLEAN :
        \E srv \in servers :
          \E run \in async_get_devices(Client(srv), refresh) :
            Call("get_devices", [NoArgs EXCEPT !.refresh = refresh], run)

GetDevice ==
    /\ last.op = "idle"
    /\ \E id \in DeviceIds, refresh \in BOOLEAN :
        \E srv \in servers :
          \E run \in async_get_device(Client(srv), id, refresh) :
            Call("get_device",
                 [NoArgs EXCEPT !.id = id, !.refresh = refresh], run)

\* device.async_update() of a device of the registry
UpdateDevice ==
    /\ last.op = "idle"
    /\ \E id \in DOMAIN devices, refresh \in BOOLEAN :
        \E srv \in servers :
          \E run \in async_update(Client(srv), id, EmptyMap, EmptyMap,
                                  refresh, FALSE) :
            Call("update", [NoArgs EXCEPT !.id = id, !.refresh = refresh], run)

\* device.async_update(device_json, refresh=False) of a device of the
\* registry, with a fragment of the caller
Fragments ==
    {DEVICE_ID :> Str("d2"), (DEVICE_ID :> Str("d3")) @@ (NAME :> Str("n2"))}
UpdateFragment ==
    /\ last.op = "idle"
    /\ \E id \in DOMAIN devices, device_json \in Fragments,
          get_devices \in BOOLEAN :
        \E srv \in servers :
          \E run \in async_update(Client(srv), id, device_json, EmptyMap,
                                  FALSE, get_devices) :
            Call("update", [NoArgs EXCEPT !.id = id, !.data = device_json,
                                          !.get_devices = get_devices], run)

\* SkybellDevice.latest(event) of a device of the registry
Filters == {None, "motion", "button", "demand"}
LatestOf ==
    /\ last.op = "idle"
    /\ \E id \in DOMAIN devices, event \in Filters :
          last' = [op |-> "latest",
                   args |-> [NoArgs EXCEPT !.id = id, !.event = event],
                   before |-> Before, at |-> now, prev |-> last.prev,
                   res |-> latest(devices[id], event), log |-> <<>>]
    /\ UNCHANGED <<cache, username, password, session, close_session,
                   disable_cache, cache_path, store, devices, now, faults,
                   servers,
                   tasks>>

\* device.async_set_setting(key, value) of a device of the registry
SettingKeys ==
    BOOL_SETTINGS
    \cup {OUTDOOR_CHIME_VOLUME, SPEAKER_VOLUME, CHIME_FILE, OUTDOOR_CHIME_FILE,
          IMAGE_QUALITY, LED_COLOR, NORMAL_LED, NAME}
SettingValues ==
    {Num(4), Str("True"), Bool(TRUE),
     List(<<Num(255), Num(0), Num(0)>>), List(<<Num(255)>>),
     List(<<Num(256), Num(0), Num(0)>>)}
SetSetting ==
    /\ last.op = "idle"
    /\ \E id \in DOMAIN devices :
        /\ Size(Get(devices[id].device_json, SETTINGS, EmptyDict).v)
              < MaxSettings
        /\ \E key \in SettingKeys, value \in SettingValues :
            \E srv \in servers :
              \E run \in async_set_setting(Client(srv), id, key, value) :
                Call("set_setting",
                     [NoArgs EXCEPT !.id = id, !.key = key, !.value = value],
                     run)

\* async_initialize of a client built with auto_login and get_devices
Initialize ==
    /\ last.op = "idle"
    /\ \E auto_login \in BOOLEAN, get_devices \in BOOLEAN :
        \E srv \in servers :
          \E run \in async_initialize(Client(srv), auto_login, get_devices) :
            Call("initialize",
                 [NoArgs EXCEPT !.auto_login = auto_login,
                                !.get_devices = get_devices], run)

\* async_update_cache(data) with the data of a caller
Partials ==
    {"app" :> Str("x"), "app" :> Dict("a" :> Num(1)),
     "app" :> Dict("b" :> Num(2)),
     AUTHENTICATION_RESULT :> EmptyDict,
     AUTHENTICATION_RESULT :> Dict(TOKEN_TYPE :> Str("Basic"))}
UpdateCache ==
    /\ last.op = "idle"
    /\ \E data \in Partials :
          Call("update_cache", [NoArgs EXCEPT !.data = data],
               Ret(async_update_cache(Client(BaseServer), data), NoneValue))

RefreshSession ==
    /\ last.op = "idle"
    /\ \E srv \in servers :
          \E run \in async_refresh_session(Client(srv)) :
            Call("refresh_session", NoArgs, run)

DeleteCache ==
    /\ last.op = "idle"
    /\ \E run \in async_delete_cache(Client(BaseServer)) :
          Call("delete_cache", NoArgs, run)

\* the end of `async with Skybell(...)`
Exit ==
    /\ last.op = "idle"
    /\ \E run \in __aexit__(Client(BaseServer)) :
          Call("exit", NoArgs, run)

\* UTILS.calculate_expiration with the lifetime, the slack and the refresh
\* cycle of a caller
Calculate ==
    /\ last.op = "idle"
    /\ \E expires_in \in 0..MaxLifetime, slack \in 0..MaxSlack,
          refresh_cycle \in 0..MaxCycle :
          Call("calculate_expiration",
               [NoArgs EXCEPT !.data = ("expires_in" :> Num(expires_in))
                                       @@ ("slack" :> Num(slack))
                                       @@ ("refresh_cycle" :> Num(refresh_cycle))],
               Ret(Client(BaseServer),
                   Num(calculate_expiration(expires_in, slack, refresh_cycle,
                                            now))))

\* the caller takes the result of the last call; the next call can start,
\* unless the context of the client has ended
Return ==
    /\ last.op \notin {"idle", "exit"}
    /\ last' = IdleAfter(Prev(last))
    /\ UNCHANGED <<cache, username, password, session, close_session,
                   disable_cache, cache_path, store, devices, now, faults,
                   servers,
                   tasks>>

Tick ==
    /\ last.op = "idle"
    /\ now < MaxNow
    /\ now' = now + 1
    /\ last' = [last EXCEPT !.at = now + 1]
    /\ UNCHANGED <<cache, username, password, session, close_session,
                   disable_cache, cache_path, store, devices, faults, servers,
                   tasks>>

Init ==
    /\ cache = (AUTHENTICATION_RESULT :> EmptyDict)
    /\ \E given \in BOOLEAN :
          /\ username = IF given THEN "user" ELSE None
          /\ password = IF given THEN "secret" ELSE None
          /\ cache_path = CachePath(username)
    /\ session = "open"
    /\ close_session \in BOOLEAN
    /\ disable_cache \in BOOLEAN
    /\ store = EmptyMap
    /\ devices = EmptyMap
    /\ now = 0
    /\ faults = AllFaults
    /\ servers = Grants
    /\ tasks = NoTasks
    /\ last = IdleAfter(NoPrev)

Next == Login \/ Logout \/ Send \/ Return \/ Tick

Spec == Init /\ [][Next]_vars

\* The registry: a client with credentials, a network whose only failure is
\* the 401 answer, and the servers of the registry.
InitRegistry ==
    /\ cache = (AUTHENTICATION_RESULT :> EmptyDict)
    /\ username = "user"
    /\ password = "secret"
    /\ cache_path = CachePath(username)
    /\ session = "open"
    /\ close_session = TRUE
    /\ disable_cache = FALSE
    /\ store = EmptyMap
    /\ devices = EmptyMap
    /\ now = 0
    /\ faults = {Status(401)}
    /\ servers = RegistryServers
    /\ tasks = NoTasks
    /\ last = IdleAfter(NoPrev)

NextRegistry == ListDevices \/ GetDevice \/ UpdateDevice \/ Logout \/ Return

SpecRegistry == InitRegistry /\ [][NextRegistry]_vars

\* The events of a device: a client with credentials, a network that does
\* not fail, and a server that lists one device and one activity list.
InitEvents ==
    /\ cache = (AUTHENTICATION_RESULT :> EmptyDict)
    /\ username = "user"
    /\ password = "secret"
    /\ cache_path = CachePath(username)
    /\ session = "open"
    /\ close_session = TRUE
    /\ disable_cache = FALSE
    /\ store = EmptyMap
    /\ devices = EmptyMap
    /\ now = 0
    /\ faults = {}
    /\ servers \in {{srv} : srv \in EventServers}
    /\ tasks = NoTasks
    /\ last = IdleAfter(NoPrev)

NextEvents == ListDevices \/ UpdateDevice \/ LatestOf \/ Return

SpecEvents == InitEvents /\ [][NextEvents]_vars

\* The settings of a device: a client with credentials, a network with every
\* failure, and a server that lists one device.
InitSettings ==
    /\ cache = (AUTHENTICATION_RESULT :> EmptyDict)
    /\ username = "user"
    /\ password = "secret"
    /\ cache_path = CachePath(username)
    /\ session = "open"
    /\ close_session = TRUE
    /\ disable_cache = FALSE
    /\ store = EmptyMap
    /\ devices = EmptyMap
    /\ now = 0
    /\ faults = AllFaults
    /\ servers \in {{srv} : srv \in SettingsServers}
    /\ tasks = NoTasks
    /\ last = IdleAfter(NoPrev)

NextSettings == GetDevice \/ SetSetting \/ Return

SpecSettings == InitSettings /\ [][NextSettings]_vars

\* The cache: a client with or without credentials and with or without a
\* cache, a disk that holds no file, an empty file or a pickled cache at the
\* cache path, a network that can answer 401, fail to connect or time out, and
\* a server that lists a device.
StoredBlobs ==
    {"loaded" :> Str("x"),
     ("loaded" :> Str("x"))
     @@ (AUTHENTICATION_RESULT :>
            Dict((ID_TOKEN :> Str("t2")) @@ (REFRESH_TOKEN :> Str("r0"))
                 @@ (TOKEN_TYPE :> Str("Bearer"))
                 @@ (TOKEN_EXPIRATION :> Num(1))
                 @@ (EXPIRATION_DATE :> Num(0))))}
StoredFiles == {EmptyFile} \cup {File(Pickle(blob)) : blob \in StoredBlobs}
InitCache ==
    /\ cache = (AUTHENTICATION_RESULT :> EmptyDict)
    /\ \E given \in BOOLEAN :
          /\ username = IF given THEN "user" ELSE None
          /\ password = IF given THEN "secret" ELSE None
          /\ cache_path = CachePath(username)
    /\ session = "open"
    /\ close_session = TRUE
    /\ disable_cache \in BOOLEAN
    /\ store \in {EmptyMap} \cup {cache_path :> file : file \in StoredFiles}
    /\ devices = EmptyMap
    /\ now = 0
    /\ faults = {Status(401), "ClientError", "TimeoutError"}
    /\ servers = {[BaseServer EXCEPT !.rows = <<Row("d1", "n1")>>]}
    /\ tasks = NoTasks
    /\ last = IdleAfter(NoPrev)

NextCache ==
    \/ Initialize \/ UpdateCache \/ Login \/ Logout \/ RefreshSession
    \/ Send \/ DeleteCache \/ Return

SpecCache == InitCache /\ [][NextCache]_vars

\* The bodies: a client with credentials, a network whose connections can
\* fail, and a server that answers the user request with one body.
InitBodies ==
    /\ cache = (AUTHENTICATION_RESULT :> EmptyDict)
    /\ username = "user"
    /\ password = "secret"
    /\ cache_path = CachePath(username)
    /\ session = "open"
    /\ close_session = TRUE
    /\ disable_cache = FALSE
    /\ store = EmptyMap
    /\ devices = EmptyMap
    /\ now = 0
    /\ faults = {"ClientError"}
    /\ servers \in {{srv} : srv \in BodyServers}
    /\ tasks = NoTasks
    /\ last = IdleAfter(NoPrev)

NextBodies == Login \/ Send \/ Return

SpecBodies == InitBodies /\ [][NextBodies]_vars

\* The teardown: a client with credentials whose session is its own or the
\* caller's, and a network whose connections can fail.
InitTeardown ==
    /\ cache = (AUTHENTICATION_RESULT :> EmptyDict)
    /\ username = "user"
    /\ password = "secret"
    /\ cache_path = CachePath(username)
    /\ session = "open"
    /\ close_session \in BOOLEAN
    /\ disable_cache = TRUE
    /\ store = EmptyMap
    /\ devices = EmptyMap
    /\ now = 0
    /\ faults = {"ClientError"}
    /\ servers = Grants
    /\ tasks = NoTasks
    /\ last = IdleAfter(NoPrev)

NextTeardown == Login \/ Logout \/ Send \/ Exit \/ Return

SpecTeardown == InitTeardown /\ [][NextTeardown]_vars

\* The expiration: the function is applied at the instants of the clock.
InitExpiration ==
    /\ cache = (AUTHENTICATION_RESULT :> EmptyDict)
    /\ username = "user"
    /\ password = "secret"
    /\ cache_path = CachePath(username)
    /\ session = "open"
    /\ close_session = TRUE
    /\ disable_cache = TRUE
    /\ store = EmptyMap
    /\ devices = EmptyMap
    /\ now \in 0..MaxNow
    /\ faults = {}
    /\ servers = {BaseServer}
    /\ tasks = NoTasks
    /\ last = IdleAfter(NoPrev)

NextExpiration == Calculate \/ Tick \/ Return

SpecExpiration == InitExpiration /\ [][NextExpiration]_vars

\* The snapshots: a client with credentials, a network whose connections can
\* fail, and servers of one device and its snapshots.
InitSnapshot ==
    /\ cache = (AUTHENTICATION_RESULT :> EmptyDict)
    /\ username = "user"
    /\ password = "secret"
    /\ cache_path = CachePath(username)
    /\ session = "open"
    /\ close_session = TRUE
    /\ disable_cache = TRUE
    /\ store = EmptyMap
    /\ devices = EmptyMap
    /\ now = 0
    /\ faults = {"ClientError"}
    /\ servers = SnapshotServers
    /\ tasks = NoTasks
    /\ last = IdleAfter(NoPrev)

NextSnapshot == ListDevices \/ UpdateDevice \/ Return

SpecSnapshot == InitSnapshot /\ [][NextSnapshot]_vars

\* The identity of the devices: a client with credentials, a network that
\* does not fail, the servers of every listing, and callers that merge
\* fragments into the devices.
InitIdentity ==
    /\ cache = (AUTHENTICATION_RESULT :> EmptyDict)
    /\ username = "user"
    /\ password = "secret"
    /\ cache_path = CachePath(username)
    /\ session = "open"
    /\ close_session = FALSE
    /\ disable_cache = TRUE
    /\ store = EmptyMap
    /\ devices = EmptyMap
    /\ now = 0
    /\ faults = {}
    /\ servers = {[BaseServer EXCEPT !.rows = rows] : rows \in Listings}
    /\ tasks = NoTasks
    /\ last = IdleAfter(NoPrev)

NextIdentity ==
    ListDevices \/ GetDevice \/ UpdateFragment \/ Logout \/ Return

SpecIdentity == InitIdentity /\ [][NextIdentity]_vars

\* The session: a client with credentials and no cache file, a network that
\* can fail, and servers that grant a token and a lifetime and answer the
\* refresh request with some of the fields.
InitSession ==
    /\ cache = (AUTHENTICATION_RESULT :> EmptyDict)
    /\ username = "user"
    /\ password = "secret"
    /\ cache_path = CachePath(username)
    /\ session = "open"
    /\ close_session = TRUE
    /\ disable_cache = TRUE
    /\ store = EmptyMap
    /\ devices = EmptyMap
    /\ now = 0
    /\ faults = {"401", "500", "ClientError", "TimeoutError"}
    /\ servers = RefreshServers
    /\ tasks = NoTasks
    /\ last = IdleAfter(NoPrev)

NextSession == Login \/ RefreshSession \/ Logout \/ Return \/ Tick

SpecSession == InitSession /\ [][NextSession]_vars

----------------------------------------------------------------------------
(* Two tasks that run async_send_request on one client *)

\* A task runs from one suspension point of the coroutine to the next in one
\* step: the coroutine is suspended while it awaits the store of the cache,
\* the answer of a request or the sleep that follows a login. The steps of the
\* two tasks interleave freely. The log of the last call holds the events of
\* both tasks in the order of the steps.

\* the answers that `except ClientError` handles
IsClientError(o) ==
    \/ o.kind = "ClientError"
    \/ o.kind = "response" /\ o.status >= 400
                           /\ o.status \notin {400, 401, 403, 404}

\* the task is over: it returned or it raised
Over(st, task, res) == [st |-> st, task |-> [task EXCEPT !.pc = "done",
                                                          !.res = res]]

\* the headers and the call of self._session.request: the request is issued
\* and the coroutine awaits its answer
Issue(st, task) ==
    LET hdr == AuthHeader(st, task.url, "") IN
    [st |-> Logged(st, Event("request", task.url, hdr, "")),
     task |-> [task EXCEPT !.pc = "answer"]]

\* async_login(None, None) up to its first await: the credentials are
\* checked, the material is cleared and the coroutine awaits the store
BeginLogin(st, task) ==
    LET s0 == Logged(st, Event("login", LOGIN_URL, "", "")) IN
    IF s0.username = None \/ s0.password = None
    THEN Over(Logged(s0, Event("login_end", LOGIN_URL, "", "raised")),
              task, "raised")
    ELSE [st |-> async_update_cache(s0, AUTHENTICATION_RESULT :> EmptyDict),
          task |-> [task EXCEPT !.pc = "login_request"]]

\* async_send_request from its entry to its first await: the implicit login
\* when there is no material, the request otherwise
Enter(st, task) ==
    IF Size(AuthMaterial(st)) = 0 /\ task.url # LOGIN_URL
    THEN BeginLogin(st, [task EXCEPT !.why = "implicit"])
    ELSE Issue(st, task)

\* the step of the task `i` ends in the client state `st.st` and at `st.task`
TaskStep(i, end) ==
    /\ cache' = end.st.cache
    /\ username' = end.st.username
    /\ password' = end.st.password
    /\ session' = end.st.session
    /\ cache_path' = end.st.cache_path
    /\ store' = end.st.store
    /\ devices' = end.st.devices
    /\ tasks' = [tasks EXCEPT ![i] = end.task]
    /\ last' = [last EXCEPT !.log = @ \o end.st.log]
    /\ UNCHANGED <<close_session, disable_cache, now, faults, servers>>

TaskUrls == {USER_URL}

\* the task calls async_send_request(url, retry=retry)
Start(i) ==
    /\ tasks[i].pc = "idle"
    /\ \E url \in TaskUrls, retry \in BOOLEAN :
          TaskStep(i, Enter(Client(BaseServer),
                            [NoTask EXCEPT !.url = url, !.retry = retry]))

\* async_login after the store of the cleared cache: the login request is
\* issued with retry=False
LoginRequest(i) ==
    /\ tasks[i].pc = "login_request"
    /\ LET st == [Client(BaseServer) EXCEPT !.in_login = TRUE]
           hdr == AuthHeader(st, LOGIN_URL, "")
       IN TaskStep(i, [st |-> Logged(st, Event("request", LOGIN_URL, hdr, "")),
                       task |-> [tasks[i] EXCEPT !.pc = "login_answer"]])

\* the login request is answered: async_login stores the material and awaits
\* the store and the sleep, or it returns False, or it raises
LoginAnswer(i) ==
    /\ tasks[i].pc = "login_answer"
    /\ \E srv \in servers :
        LET st == [Client(srv) EXCEPT !.in_login = TRUE] IN
        \E o \in Transport(st, LOGIN_URL) :
          \E answered \in OnAnswer(st, LOGIN_URL, "", FALSE, o) :
            LET run == LoginEnd(LoginOutcome(answered)) IN
            TaskStep(i, IF Raised(run) THEN Over(run.st, tasks[i], "raised")
                        ELSE [st |-> run.st,
                              task |-> [tasks[i] EXCEPT
                                          !.pc = "login_return",
                                          !.res = IF run.res.v.v THEN "True"
                                                  ELSE "False"]])

\* async_login returns to async_send_request: the implicit login to the
\* request or to the SkybellAuthenticationException, the login of the retry
\* to async_send_request(url, retry=False)
Resume(i) ==
    /\ tasks[i].pc = "login_return"
    /\ LET st == Client(BaseServer)
           task == [tasks[i] EXCEPT !.res = ""]
       IN TaskStep(i, IF tasks[i].why = "retry"
                      THEN Enter(st, [task EXCEPT !.retry = FALSE])
                      ELSE IF tasks[i].res = "False" THEN Over(st, task, "raised")
                      ELSE Issue(st, task))

\* the request is answered: the task returns or raises, or it logs in to
\* retry after a ClientError
Answer(i) ==
    /\ tasks[i].pc = "answer"
    /\ \E srv \in servers :
        LET st == Client(srv) IN
        \E o \in Transport(st, tasks[i].url) :
          IF IsClientError(o) /\ tasks[i].retry
          THEN TaskStep(i, BeginLogin(st, [tasks[i] EXCEPT !.why = "retry"]))
          ELSE \E run \in OnAnswer(st, tasks[i].url, "", FALSE, o) :
                 TaskStep(i, Over(run.st, tasks[i],
                                  IF Raised(run) THEN "raised" ELSE "returned"))

\* The tasks: a client with or without credentials and without material, a
\* network whose only failure is the ClientError, and the servers that grant
\* the one or the other token.
TaskServers == {[BaseServer EXCEPT !.tok = tok] : tok \in Tokens}

InitTasks ==
    /\ cache = (AUTHENTICATION_RESULT :> EmptyDict)
    /\ \E given \in BOOLEAN :
          /\ username = IF given THEN "user" ELSE None
          /\ password = IF given THEN "secret" ELSE None
          /\ cache_path = CachePath(username)
    /\ session = "open"
    /\ close_session = FALSE
    /\ disable_cache = TRUE
    /\ store = EmptyMap
    /\ devices = EmptyMap
    /\ now = 0
    /\ faults = {"ClientError"}
    /\ servers = TaskServers
    /\ tasks = NoTasks
    /\ last = IdleAfter(NoPrev)

NextTasks ==
    \E i \in TaskIds :
        Start(i) \/ LoginRequest(i) \/ LoginAnswer(i) \/ Resume(i) \/ Answer(i)

SpecTasks == InitTasks /\ [][NextTasks]_vars

----------------------------------------------------------------------------
(* What the properties say of the last call *)

Log == last.log
Returned == last.res.k = "ret"
Failed(ex) == last.res.k = "exc" /\ last.res.v.v = ex
MaterialNow == AuthMaterial([cache |-> cache])
MaterialBefore == AuthMaterial(last.before)
Least(S) == CHOOSE i \in S : \A j \in S : i <= j
Greatest(S) == CHOOSE i \in S : \A j \in S : j <= i

\* the requests of the call for its own URL, those of async_login excluded
TargetRequests ==
    {i \in 1..Len(Log) :
        Log[i].e = "request" /\ ~Log[i].by_login /\ Log[i].url = last.args.url}
\* the calls and the ends of async_login among the events from..to
Logins(from, to) == {i \in from..to : Log[i].e = "login"}
LoginEnds(from, to) == {i \in from..to : Log[i].e = "login_end"}
\* the answer is a rejection of the credentials or of the token
IsRejection(ev) ==
    /\ ev.e = "request"
    /\ ev.out = Status(401) \/ (ev.out = Status(403) /\ ev.url = LOGIN_URL)
ConnectionFailure(ev) == ev.e = "request" /\ ev.out = "ClientError"

----------------------------------------------------------------------------
\* C1: a send call one of whose requests is answered 401, or 403 on the login
\* URL, fails with SkybellAuthenticationException and leaves the stored
\* AuthenticationResult empty, whatever was stored before.
C1_RejectionClearsMaterial ==
    (last.op = "send" /\ \E i \in 1..Len(Log) : IsRejection(Log[i]))
        => Failed(AuthenticationException) /\ Size(MaterialNow) = 0

\* C2: a send call to a URL other than the login URL, made while the stored
\* AuthenticationResult is empty, starts with one call of async_login, and
\* that is the only one before its own first request; its own request is
\* issued only after async_login returned True, and when async_login returned
\* False the call fails with SkybellAuthenticationException.
C2_ImplicitLogin ==
    (last.op = "send" /\ last.args.url # LOGIN_URL /\ Size(MaterialBefore) = 0)
        => LET first == IF TargetRequests = {} THEN Len(Log) + 1
                        ELSE Least(TargetRequests)
               ends == LoginEnds(1, first - 1)
           IN /\ Len(Log) > 0 /\ Log[1].e = "login"
              /\ Cardinality(Logins(1, first - 1)) = 1
              /\ Cardinality(ends) = 1
              /\ \A i \in ends :
                    /\ Log[i].out # "True" => TargetRequests = {}
                    /\ Log[i].out = "False"
                          => Failed(AuthenticationException)

C2_Witness ==
    /\ last.op = "send" /\ last.args.url # LOGIN_URL
    /\ Size(MaterialBefore) = 0
    /\ Log[1].e = "login"
    /\ TargetRequests # {}
    /\ Returned

\* C3: a send call issues its own request at most twice with retry and at
\* most once without; without retry a connection failure ends the call at
\* once with SkybellException and no login; with retry, two connection
\* failures end the call with SkybellException at the second one.
C3_BoundedAttempts ==
    last.op = "send"
        => /\ Cardinality(TargetRequests) <= IF last.args.retry THEN 2 ELSE 1
           /\ \A i \in TargetRequests :
                (~last.args.retry /\ ConnectionFailure(Log[i]))
                    => i = Len(Log) /\ Failed(BaseSkybellException)
           /\ ( /\ last.args.retry
                /\ Cardinality(TargetRequests) = 2
                /\ \A i \in TargetRequests : ConnectionFailure(Log[i]) )
                    => /\ Greatest(TargetRequests) = Len(Log)
                       /\ Failed(BaseSkybellException)

C3_Witness ==
    /\ last.op = "send" /\ last.args.retry
    /\ Cardinality(TargetRequests) = 2
    /\ \A i \in TargetRequests : ConnectionFailure(Log[i])

\* the first own request of the call failed to connect and retry was allowed
FirstAttemptFailed ==
    /\ last.op = "send" /\ last.args.retry
    /\ TargetRequests # {}
    /\ ConnectionFailure(Log[Least(TargetRequests)])
\* the own requests of the call after the first one
Retries == TargetRequests \ {Least(TargetRequests)}
\* the call returned what the answer `ev` carried
ReturnedPayloadOf(ev) == Returned /\ last.res.v = ParseBody(ev.body)

\* C4 (as stated): after a connection failure of the first attempt of a send
\* call with retry, the call makes exactly one login and then exactly one
\* retry, in that order, and returns the payload of a retry that succeeded.
C4_LoginThenRetry ==
    FirstAttemptFailed
        => LET first == Least(TargetRequests)
               logins == Logins(first + 1, Len(Log))
           IN /\ logins = {first + 1}
              /\ Cardinality(Retries) = 1
              /\ \A i \in Retries :
                    /\ first + 1 < i
                    /\ Log[i].out = Status(200) => ReturnedPayloadOf(Log[i])

\* C4 (amended): after a connection failure of the first attempt of a send
\* call with retry, the call makes exactly one login; when that login raises,
\* the call ends there with no retry; otherwise exactly one retry follows the
\* end of the login, and the call returns the payload of a retry that
\* succeeded.
C4_LoginThenRetryUnlessLoginRaises ==
    FirstAttemptFailed
        => LET first == Least(TargetRequests)
               logins == Logins(first + 1, Len(Log))
               ends == LoginEnds(first + 1, Len(Log))
           IN /\ logins = {first + 1}
              /\ Cardinality(ends) = 1
              /\ \A e \in ends :
                    IF Log[e].out = "raised"
                    THEN Retries = {} /\ e = Len(Log) /\ ~Returned
                    ELSE /\ Cardinality(Retries) = 1
                         /\ \A i \in Retries :
                              /\ e < i
                              /\ Log[i].out = Status(200)
                                    => ReturnedPayloadOf(Log[i])

C4_Witness ==
    /\ FirstAttemptFailed
    /\ \E i \in Retries : Log[i].out = Status(200) /\ ReturnedPayloadOf(Log[i])

\* C5: when async_login has returned True, the stored AuthenticationResult is
\* not empty and its ExpirationDate is later than the instant of the login.
C5_ExpirationAfterLogin ==
    (last.op = "login" /\ last.res = [k |-> "ret", v |-> Bool(TRUE)])
        => /\ Size(MaterialNow) > 0
           /\ EXPIRATION_DATE \in DOMAIN MaterialNow
           /\ MaterialNow[EXPIRATION_DATE].v > last.at

\* C6: when async_logout has returned, the stored AuthenticationResult is
\* empty, whatever it was before.
C6_LogoutClearsMaterial ==
    last.op = "logout" => Size(MaterialNow) = 0

----------------------------------------------------------------------------
C8_OneFetch ==
    (last.op = "get_devices" /\ Returned)
        => /\ last.args.refresh => Fetches(Log) = 1
           /\ ( /\ ~last.args.refresh
                /\ last.prev.op = "get_devices"
                /\ last.prev.fetches = 1 ) => Fetches(Log) = 0

\* the rows of the listing the call fetched, <<>> when it fetched none
FetchedRows ==
    LET at == {i \in 1..Len(Log) :
                  /\ Log[i].e = "request" /\ Log[i].url = DEVICES_URL
                  /\ Log[i].out = Status(200)}
    IN IF at = {} THEN <<>>
       ELSE ParseBody(Log[Greatest(at)].body).v[RESPONSE_ROWS].v

\* C9: when async_get_devices has fetched a listing and returns, the record
\* of every row whose id was known has each field of the row, and keeps its
\* other fields; every row whose id was new has a new record made of the row;
\* and the call returns all the records of the registry.
C9_ListingMerged ==
    (last.op = "get_devices" /\ Returned /\ FetchedRows # <<>>)
        => /\ \A r \in 1..Len(FetchedRows) :
                LET row == FetchedRows[r].v
                    id == row[DEVICE_ID].v
                IN /\ id \in DOMAIN devices
                   /\ IF id \in DOMAIN last.before.devices
                      THEN LET old == last.before.devices[id].device_json
                               new == devices[id].device_json
                           IN /\ \A key \in DOMAIN row :
                                    key \in DOMAIN new /\ new[key] = row[key]
                              /\ \A key \in DOMAIN old \ DOMAIN row :
                                    key \in DOMAIN new /\ new[key] = old[key]
                      ELSE devices[id] = NewDevice(row)
           /\ last.res.v = DevicesValue(devices)

\* the call updated the device in full: SkybellDevice.async_update was called
\* and fetched the snapshot and then the activities of the device
FullUpdate(id) ==
    \E u, s, a \in 1..Len(Log) :
        /\ u < s /\ s < a
        /\ Log[u].e = "update" /\ Log[u].url = DEVICE_URL(id)
        /\ Log[s].e = "request" /\ Log[s].url = DEVICE_SNAPSHOT_URL(id)
        /\ Log[s].out = Status(200)
        /\ Log[a].e = "request" /\ Log[a].url = DEVICE_ACTIVITIES_URL(id)
        /\ Log[a].out = Status(200)

\* C10 (as stated): a call of async_get_device with refresh that returns the
\* device has updated it in full, whatever the registry held before.
C10_RefreshUpdates ==
    (last.op = "get_device" /\ last.args.refresh /\ Returned)
        => FullUpdate(last.args.id)

\* C10 (amended): a call of async_get_device with refresh that returns the
\* device has updated it in full exactly when the registry held devices
\* before the call; when the registry was empty, the call has fetched the
\* listing and has updated no device.
C10_RefreshUpdatesLoadedRegistry ==
    (last.op = "get_device" /\ last.args.refresh /\ Returned)
        => IF Size(last.before.devices) > 0
           THEN FullUpdate(last.args.id)
           ELSE /\ Fetches(Log) = 1
                /\ \A i \in 1..Len(Log) : Log[i].e # "update"

C10_Witness ==
    /\ last.op = "get_device" /\ last.args.refresh /\ Returned
    /\ Size(last.before.devices) > 0
    /\ FullUpdate(last.args.id)

----------------------------------------------------------------------------
\* the event types of a sequence of activities
TypesOf(activities) ==
    {activities[i].v[EVENT_TYPE].v : i \in 1..Len(activities)}

\* the call fetched the activities of the device and folded them
Ingested(id) ==
    \E i \in 1..Len(Log) :
        /\ Log[i].e = "request" /\ Log[i].url = DEVICE_ACTIVITIES_URL(id)
        /\ Log[i].out = Status(200)

\* C11: after an update of a device that has fetched its activities, the
\* events of the device hold one entry for each event type of the fetched
\* list and none for any other type.
C11_EventsRebuilt ==
    (last.op = "update" /\ Ingested(last.args.id))
        => LET device == devices[last.args.id] IN
           /\ TypesOf(device.events) = TypesOf(device.activities)
           /\ Len(device.events) = Cardinality(TypesOf(device.activities))

\* the activity of the type that the fold of the list keeps: the one of the
\* greatest time, and the last of those in the list
Winner(activities, type) ==
    LET of == {i \in 1..Len(activities) :
                  activities[i].v[EVENT_TYPE].v = type}
        top == {i \in of : \A j \in of :
                  activities[j].v[EVENT_TIME].v <= activities[i].v[EVENT_TIME].v}
    IN activities[Greatest(top)]

\* the update folded the fetched activities into events that were empty
FoldedFromEmpty ==
    /\ last.op = "update" /\ Ingested(last.args.id)
    /\ last.before.devices[last.args.id].events = <<>>

\* C12: when the fetched activities are folded into empty events, the events
\* hold, for each event type of the list and for no other, the activity of
\* that type with the greatest time, the last in the list among equals.
C12_FoldKeepsGreatest ==
    FoldedFromEmpty
        => LET device == devices[last.args.id] IN
           /\ TypesOf(device.events) = TypesOf(device.activities)
           /\ Len(device.events) = Cardinality(TypesOf(device.activities))
           /\ \A k \in 1..Len(device.events) :
                 device.events[k]
                    = Winner(device.activities,
                             device.events[k].v[EVENT_TYPE].v)

\* the list motion at 3, motion at 1, button at 2 gives motion at 3, button at 2
C12_Witness ==
    /\ FoldedFromEmpty
    /\ LET device == devices[last.args.id] IN
       /\ device.activities
            = <<Activity("1", EVENT_MOTION, 3, ""),
                Activity("2", EVENT_MOTION, 1, ""),
                Activity("3", EVENT_BUTTON, 2, "")>>
       /\ device.events
            = <<Activity("1", EVENT_MOTION, 3, ""),
                Activity("3", EVENT_BUTTON, 2, "")>>

\* C13: latest() without a filter returns an entry of the events whose time
\* is not less than the time of any entry, and the empty record when there
\* is no entry.
C13_LatestIsGreatest ==
    (last.op = "latest" /\ last.args.event = None)
        => LET events == devices[last.args.id].events IN
           /\ Returned
           /\ IF events = <<>> THEN last.res.v = EmptyDict
              ELSE /\ \E k \in 1..Len(events) : events[k] = last.res.v
                   /\ \A j \in 1..Len(events) :
                         events[j].v[EVENT_TIME].v <= last.res.v.v[EVENT_TIME].v

C13_Witness ==
    /\ last.op = "latest" /\ last.args.event = None
    /\ LET events == devices[last.args.id].events IN
       /\ Len(events) = 3
       /\ events[1].v[EVENT_TIME].v < events[2].v[EVENT_TIME].v
       /\ events[3].v[EVENT_TIME].v < events[2].v[EVENT_TIME].v
       /\ last.res.v = events[2]

\* the record is the entry, its time read as a date
IsEntry(record, entry) ==
    /\ DOMAIN record.v = DOMAIN entry.v
    /\ \A key \in DOMAIN entry.v \ {EVENT_TIME} : record.v[key] = entry.v[key]
    /\ record.v[EVENT_TIME] = [t |-> "datetime", v |-> entry.v[EVENT_TIME].v]

\* C14: latest(T) returns the entry of the events under device:sensor:T when
\* there is one, else the entry under application:on-T when there is one,
\* else a record whose time is the epoch; it does not raise.
C14_FilteredLatest ==
    (last.op = "latest" /\ last.args.event # None)
        => LET events == devices[last.args.id].events
               sensor == EventsGet(events, "device:sensor:" \o last.args.event,
                                   EmptyDict)
               demand == EventsGet(events, "application:on-" \o last.args.event,
                                   EmptyDict)
           IN /\ Returned
              /\ IF sensor # EmptyDict THEN IsEntry(last.res.v, sensor)
                 ELSE IF demand # EmptyDict THEN IsEntry(last.res.v, demand)
                 ELSE last.res.v.v[EVENT_TIME]
                         = [t |-> "datetime", v |-> EPOCH]

----------------------------------------------------------------------------
(* Settings *)

\* the requests of the last call
Requests == {i \in 1..Len(Log) : Log[i].e = "request"}
\* the key of the last async_set_setting is checked against a list of values
\* and the value is outside of it
Enumerated(key) ==
    IF key \in BOOL_SETTINGS THEN BOOL_STRINGS
    ELSE IF key = OUTDOOR_CHIME_VOLUME THEN OUTDOOR_CHIME_VALUES
    ELSE IF key = SPEAKER_VOLUME THEN SPEAKER_VOLUME_VALUES
    ELSE IF key \in {CHIME_FILE, OUTDOOR_CHIME_FILE} THEN CHIME_FILE_VALUES
    ELSE IF key = IMAGE_QUALITY THEN IMAGE_QUALITY_VALUES
    ELSE {}
EnumeratedKeys ==
    BOOL_SETTINGS \cup {OUTDOOR_CHIME_VOLUME, SPEAKER_VOLUME, CHIME_FILE,
                        OUTDOOR_CHIME_FILE, IMAGE_QUALITY}
OutsideDomain ==
    /\ last.op = "set_setting"
    /\ last.args.key \in EnumeratedKeys
    /\ ~PyIn(last.args.value, Enumerated(last.args.key))
\* the last call failed with SkybellException(INVALID_SETTING_VALUE)
InvalidSettingValue ==
    /\ Failed(BaseSkybellException)
    /\ "error" \in DOMAIN last.res.v
    /\ last.res.v.error = INVALID_SETTING_VALUE

Dispatched == last.op = "set_setting" /\ Log # <<>>
Accepted ==
    \E i \in Requests :
        Log[i].url = DEVICE_SETTINGS_URL(last.args.id) /\ Log[i].out = "200"

\* C16: when async_set_setting passes the validation and the dispatcher
\* fails, the call returns without an error and the device record is the one
\* before the call.
C16_FailureSwallowed ==
    (Dispatched /\ ~Accepted) =>
        /\ Returned
        /\ devices = last.before.devices

\* the settings the server accepted in the last async_set_setting, and the
\* settings fragment of the device after it
AcceptedSettings ==
    LET i == CHOOSE i \in Requests :
                 /\ Log[i].url = DEVICE_SETTINGS_URL(last.args.id)
                 /\ Log[i].out = "200"
    IN ParseBody(Log[i].body).v
SettingsNow ==
    Get(devices[last.args.id].device_json, SETTINGS, EmptyDict).v

\* C17: after an async_set_setting that the server accepted, the settings
\* fragment of the device record holds every accepted setting with the
\* accepted value, whether or not the record had a settings fragment before.
C17_AcceptedSettingsMerged ==
    (Dispatched /\ Accepted /\ Returned) =>
        \A key \in DOMAIN AcceptedSettings :
            /\ key \in DOMAIN SettingsNow
            /\ SettingsNow[key] = AcceptedSettings[key]

----------------------------------------------------------------------------
(* The cache *)

\* the file at the cache path
Stored == FileAt(store, cache_path)
\* the last call changed the cache, or is one that always updates it
Mutated ==
    \/ cache # last.before.cache
    \/ last.op \in {"initialize", "update_cache", "logout"}

\* C18: with the cache enabled, when a call that changes the cache has ended,
\* the file at the cache path holds the pickled cache; after async_initialize
\* the file exists and is not empty.
C18_CacheFlushed ==
    (~disable_cache /\ last.op \notin {"idle", "delete_cache"} /\ Mutated) =>
        /\ Stored = File(Pickle(cache))
        /\ Stored \notin {Absent, EmptyFile}

\* async_initialize loaded a pickled cache, logged in and saved the result
C18_Witness ==
    /\ ~disable_cache
    /\ last.op = "initialize"
    /\ Returned
    /\ "loaded" \in DOMAIN cache
    /\ cache # last.before.cache
    /\ Size(MaterialNow) > 0
    /\ Stored = File(Pickle(cache))

\* C19: when async_update_cache(data) has returned, a second
\* async_update_cache with the same data changes neither the cache nor the
\* files.
C19_UpdateIdempotent ==
    last.op = "update_cache" =>
        LET again == async_update_cache(
                         [cache |-> cache, cache_path |-> cache_path,
                          store |-> store],
                         last.args.data)
        IN /\ cache = update(last.before.cache, last.args.data)
           /\ again.cache = cache
           /\ again.store = store

\* an update merged a nested value into a loaded cache that held one
C19_Witness ==
    /\ last.op = "update_cache"
    /\ last.args.data = ("app" :> Dict("b" :> Num(2)))
    /\ "app" \in DOMAIN last.before.cache
    /\ last.before.cache["app"] = Dict("a" :> Num(1))
    /\ cache["app"] = Dict(("a" :> Num(1)) @@ ("b" :> Num(2)))
    /\ "loaded" \in DOMAIN cache

\* C20: with the cache disabled no call reads, writes or deletes a file: the
\* files are the ones before the call and the cache holds nothing of them.
C20_DisabledCacheUntouched ==
    disable_cache =>
        /\ store = last.before.store
        /\ "loaded" \notin DOMAIN cache

----------------------------------------------------------------------------
(* The answers of the server *)

\* the requests of the last call to a URL other than the login URL that the
\* server answered with one of the statuses
Answered(statuses) ==
    {i \in 1..Len(Log) :
        /\ Log[i].e = "request"
        /\ Log[i].url # LOGIN_URL
        /\ Log[i].out \in statuses}

\* C21: a 403 or 404 answer to a request of a send call to a URL other than
\* the login URL ends the call with SkybellUnknownResourceException and a 400
\* answer ends it with SkybellRequestException; the answered request is the
\* last thing the call does, whatever retry is (no login, no other request),
\* and the cache is the one the request was sent with.
C21_ClientStatusNotRetried ==
    last.op = "send" =>
        /\ \A i \in Answered({"403", "404"}) :
              i = Len(Log) /\ Failed(UnknownResourceException)
        /\ \A i \in Answered({"400"}) :
              i = Len(Log) /\ Failed(RequestException)
        /\ (Answered({"400", "403", "404"}) # {} /\ Logins(1, Len(Log)) = {})
              => cache = last.before.cache

\* a send call with retry and a stored token was answered with 404
C21_Witness ==
    /\ last.op = "send"
    /\ last.args.retry
    /\ last.args.url = USER_URL
    /\ Size(MaterialBefore) > 0
    /\ Log = <<Log[1]>>
    /\ Answered({"404"}) = {1}
    /\ Failed(UnknownResourceException)

\* C22: an answer with another error status (500) to a request of a send
\* call to a URL other than the login URL ends the call with
\* SkybellException, and the answered request is the last thing the call
\* does, whatever retry is (no login, no other request).
C22_ServerStatusNotRetried ==
    last.op = "send" =>
        \A i \in Answered({"500"}) :
            i = Len(Log) /\ Failed(BaseSkybellException)

\* the body of the answer a returned send call ends with
AnswerBody == Log[Len(Log)].body

\* C23: a send call that returns returns the "data" field of a JSON object
\* that has one, the body itself when the JSON body has no "data" field, and
\* the bytes of a body that is not JSON.
C23_BodyUnwrapped ==
    (last.op = "send" /\ Returned) =>
        IF AnswerBody.ctype = "application/json"
           /\ IsDict(AnswerBody.val)
           /\ RESPONSE_DATA \in DOMAIN AnswerBody.val.v
        THEN last.res.v = AnswerBody.val.v[RESPONSE_DATA]
        ELSE last.res.v = AnswerBody.val

----------------------------------------------------------------------------
(* The Authorization header *)

\* the tokens that were stored when the request `i` of the last call was sent
StoredTokens(i) ==
    {Get(MaterialBefore, ID_TOKEN, Str("")).v}
    \cup {Get(AuthMaterial(_async_load_cache(last.before)), ID_TOKEN, Str("")).v :
             op \in {last.op} \cap {"initialize"}}
    \cup {Get(MaterialNow, ID_TOKEN, Str("")).v :
             j \in {j \in LoginEnds(1, i) : Log[j].out = "True"}}

\* C24: a request carries the Authorization header only when its URL is on
\* the API host and the token of the header is stored; a request to another
\* host never carries a token.
C24_TokenOnlyToApiHost ==
    \A i \in 1..Len(Log) :
        Log[i].e = "request" =>
            /\ ~IsApiHost(Log[i].url) => Log[i].tok = ""
            /\ Log[i].tok # "" =>
                  IsApiHost(Log[i].url) /\ Log[i].tok \in StoredTokens(i)

\* a client with a stored token sent a request to the download host, twice
\* because the first connection failed
C24_Witness ==
    /\ last.op = "send"
    /\ last.args.url = DOWNLOAD_HOST_URL
    /\ Get(MaterialBefore, ID_TOKEN, Str("")).v # ""
    /\ Len(Log) = 5
    /\ Log[1].e = "request" /\ Log[1].out = "ClientError" /\ Log[1].tok = ""
    /\ Log[3].e = "request" /\ Log[3].tok # ""
    /\ Log[5].url = DOWNLOAD_HOST_URL /\ Log[5].tok = ""
    /\ Returned

----------------------------------------------------------------------------
(* The failures of the login request *)

\* the login requests of the last call that `outs` ended
LoginAnswered(outs) ==
    {i \in 1..Len(Log) :
        Log[i].e = "request" /\ Log[i].url = LOGIN_URL /\ Log[i].out \in outs}

\* C25: async_login returns False and raises nothing when its request fails
\* for a reason other than authentication: a connection failure, a timeout
\* or a status that is neither 2xx nor 401 nor 403.
C25_LoginFailureReturnsFalse ==
    (/\ last.op = "login"
     /\ LoginAnswered({"ClientError", "TimeoutError", "400", "404", "500"}) # {})
        => Returned /\ last.res.v = Bool(FALSE)

----------------------------------------------------------------------------
(* The refresh of the session *)

RefreshTokenBefore == Get(MaterialBefore, REFRESH_TOKEN, Str("")).v
\* the fields of the answer to the refresh request of the last call
RefreshResponse == AnswerBody.val.v[RESPONSE_DATA].v
RefreshAnswered == Len(Log) = 1 /\ Log[1].out = "200"

\* C26: async_refresh_session without a stored refresh token raises
\* SkybellAuthenticationException and sends no request; with one it raises
\* nothing, and returns False when the request fails or the answer has no
\* lifetime.
C26_RefreshFailureReturnsFalse ==
    last.op = "refresh_session" =>
        IF RefreshTokenBefore = ""
        THEN Failed(AuthenticationException) /\ Log = <<>>
        ELSE /\ Returned
             /\ (\/ ~RefreshAnswered
                 \/ TOKEN_EXPIRATION \notin DOMAIN RefreshResponse)
                   => last.res.v = Bool(FALSE)

RefreshSucceeded ==
    last.op = "refresh_session" /\ Returned /\ last.res.v = Bool(TRUE)

\* C27: after async_refresh_session has returned True the stored
\* AuthenticationResult is the one before merged with the answer: the fields
\* of the answer come from the answer, the expiration is computed anew from
\* the lifetime of the answer, every other field is kept, and
\* session_refresh_period is the lifetime of the answer.
C27_RefreshMerged ==
    RefreshSucceeded =>
        /\ DOMAIN MaterialNow =
              DOMAIN MaterialBefore \cup DOMAIN RefreshResponse
              \cup {EXPIRATION_DATE}
        /\ \A f \in DOMAIN RefreshResponse : MaterialNow[f] = RefreshResponse[f]
        /\ MaterialNow[EXPIRATION_DATE] =
              Num(calculate_expiration(RefreshResponse[TOKEN_EXPIRATION].v,
                                       EXPIRATION_SLACK, REFRESH_CYCLE, last.at))
        /\ \A f \in DOMAIN MaterialBefore
                    \ (DOMAIN RefreshResponse \cup {EXPIRATION_DATE}) :
              MaterialNow[f] = MaterialBefore[f]
        /\ session_refresh_period([cache |-> cache]) =
              RefreshResponse[TOKEN_EXPIRATION].v

\* a refresh changed the token, the lifetime and the expiration of a login
\* and kept its refresh token
C27_Witness ==
    /\ RefreshSucceeded
    /\ MaterialBefore[ID_TOKEN] # MaterialNow[ID_TOKEN]
    /\ MaterialBefore[TOKEN_EXPIRATION] # MaterialNow[TOKEN_EXPIRATION]
    /\ MaterialBefore[EXPIRATION_DATE] # MaterialNow[EXPIRATION_DATE]
    /\ MaterialNow[REFRESH_TOKEN] = Str("r1")

----------------------------------------------------------------------------
(* The session of the client *)

\* the calls of close() in the last call
Closes == {i \in 1..Len(Log) : Log[i].e = "close"}

----------------------------------------------------------------------------
(* The failures of the dispatcher in the public calls *)

\* the requests of the last call that were answered with `status`
Rejected(status) ==
    {i \in 1..Len(Log) : Log[i].e = "request" /\ Log[i].out = status}

\* C29: when async_send_request raises SkybellAuthenticationException (a 401
\* answer) or SkybellRequestException (a 400 answer) during async_initialize,
\* async_get_devices, async_get_device or the async_update of a device, the
\* call raises that exception.
C29_FailureReachesCaller ==
    last.op \in {"initialize", "get_devices", "get_device", "update"} =>
        /\ Rejected("401") # {} => Failed(AuthenticationException)
        /\ Rejected("400") # {} => Failed(RequestException)

----------------------------------------------------------------------------
(* The expiration *)

Input(name) == last.args.data[name].v
Calculated == last.op = "calculate_expiration"

\* C30: calculate_expiration returns no instant before the instant it is
\* called at, and no instant before the one it returns for the same lifetime,
\* slack and refresh cycle at an earlier instant, whatever the lifetime, a
\* lifetime below the slack included.
C30_ExpirationNotBeforeNow ==
    Calculated =>
        /\ last.res.v.v >= last.at
        /\ \A t \in 0..last.at :
              calculate_expiration(Input("expires_in"), Input("slack"),
                                   Input("refresh_cycle"), t) <= last.res.v.v

\* the expiration of a lifetime below the slack is the instant of the call
C30_Witness ==
    /\ Calculated
    /\ Input("expires_in") < Input("slack")
    /\ Input("refresh_cycle") > 0
    /\ last.at > 0
    /\ last.res.v.v = last.at

----------------------------------------------------------------------------
(* The number of requests of a call *)

\* the end of the async_login that starts at the event `i`
EndOf(i) == Least(LoginEnds(i, Len(Log)) \cup {Len(Log) + 1})
\* the requests that async_login did not issue
OwnRequests == {i \in Requests : ~Log[i].by_login}

\* C31: an async_login sends at most one request, to LOGIN_URL, and calls
\* no async_login; an async_send_request calls async_login at most twice
\* and sends at most two requests of its own, one when retry is False.
C31_BoundedRequests ==
    last.op \in {"login", "send"} =>
        /\ \A i \in Logins(1, Len(Log)) :
              /\ EndOf(i) <= Len(Log)
              /\ EndOf(i) - i <= 2
              /\ \A j \in (i + 1)..(EndOf(i) - 1) :
                    /\ Log[j].e = "request"
                    /\ Log[j].url = LOGIN_URL
                    /\ Log[j].by_login
        /\ \A j \in Requests : Log[j].by_login =>
              j > 1 /\ Log[j - 1].e = "login"
        /\ last.op = "login" => Logins(1, Len(Log)) = {1} /\ OwnRequests = {}
        /\ last.op = "send" =>
              /\ Cardinality(Logins(1, Len(Log))) <= 2
              /\ Cardinality(OwnRequests) <= (IF last.args.retry THEN 2 ELSE 1)

\* a send that logged in before its request, failed to connect, logged in
\* again and sent its request a second time
C31_Witness ==
    /\ last.op = "send" /\ last.args.retry
    /\ Cardinality(Logins(1, Len(Log))) = 2
    /\ Cardinality(OwnRequests) = 2
    /\ Len(Log) = 8

----------------------------------------------------------------------------
(* The image of the latest activity *)

\* the requests of the last call for the video of an activity that the server
\* answered with a download URL
VideoFound ==
    {i \in Requests :
        /\ Log[i].url.ep = "video"
        /\ Log[i].out = Status(200)
        /\ IsDict(ParseBody(Log[i].body))
        /\ DOWNLOAD_URL \in DOMAIN ParseBody(Log[i].body).v}

\* C32: when an async_update with refresh has returned and the server has
\* answered the video request of the latest activity with a download URL,
\* the image of the activity is the bytes that the download URL serves.
C32_ActivityImageFetched ==
    (last.op = "update" /\ last.args.refresh /\ Returned /\ VideoFound # {})
        => devices[last.args.id].images[ACTIVITY] = Bytes("video")

----------------------------------------------------------------------------
(* The ties of latest() *)

\* the positions of the entries of `events` that have the greatest time
Greatests(events) ==
    {i \in 1..Len(events) :
        \A j \in 1..Len(events) :
            events[j].v[EVENT_TIME].v <= events[i].v[EVENT_TIME].v}

\* C33: latest() without a filter returns, of the entries of the events that
\* share the greatest time, the one that comes last in the order of the
\* events.
C33_LatestTiePrefersLater ==
    (/\ last.op = "latest" /\ last.args.event = None
     /\ devices[last.args.id].events # <<>>)
        => LET events == devices[last.args.id].events IN
           last.res = [k |-> "ret", v |-> events[Greatest(Greatests(events))]]

----------------------------------------------------------------------------
(* The avatar of a device *)

\* the snapshot requests of the last call that were answered
SnapshotFetches ==
    {i \in Requests : Log[i].url.ep = "snapshot" /\ Log[i].out = Status(200)}
\* the snapshot that the last call fetched
Fetched == ParseBody(Log[Greatest(SnapshotFetches)].body).v
DeviceBefore == last.before.devices[last.args.id]
DeviceNow == devices[last.args.id]
\* the creation time of a snapshot, None when the snapshot has none
CreatedAt(snapshot_json) == Get(snapshot_json, PREVIEW_CREATED_AT, NoneValue)
Avatar(device) == Get(device.images, SNAPSHOT, NoneValue)

\* C34: an async_update that has fetched the snapshot has stored the fetched
\* snapshot, and the avatar is the decoded image of the fetched snapshot if
\* the creation time of the fetched snapshot differs from the one stored
\* before, and the avatar of before if it does not.
C34_AvatarReplacedOnNewSnapshot ==
    (last.op = "update" /\ SnapshotFetches # {})
        => /\ DeviceNow.snapshot_json = Fetched
           /\ Avatar(DeviceNow) =
                 IF Fetched[PREVIEW_CREATED_AT]
                      # CreatedAt(DeviceBefore.snapshot_json)
                 THEN b64decode(Fetched[PREVIEW_IMAGE].v)
                 ELSE Avatar(DeviceBefore)

\* the creation time is the one of before, the image is another one, and
\* the avatar is kept
C34_Witness ==
    /\ last.op = "update" /\ SnapshotFetches # {}
    /\ Fetched[PREVIEW_CREATED_AT] = CreatedAt(DeviceBefore.snapshot_json)
    /\ b64decode(Fetched[PREVIEW_IMAGE].v) # Avatar(DeviceBefore)
    /\ Avatar(DeviceNow) = Avatar(DeviceBefore)
    /\ Avatar(DeviceNow) # NoneValue

----------------------------------------------------------------------------
(* The colour of the LED *)

\* the value of the last async_set_setting is a list of three integers 0..255
IsColor(value) ==
    /\ value.t = "list"
    /\ Len(value.v) = 3
    /\ \A i \in 1..3 : value.v[i].t = "int" /\ value.v[i].v \in 0..255
ColorSet == last.op = "set_setting" /\ last.args.key = LED_COLOR

\* C35: async_set_setting of LED_COLOR with a value that is not a list of
\* three integers 0..255 fails with the invalid-setting-value error and
\* issues no request; with such a list it does not fail with that error.
C35_ColorValidated ==
    ColorSet =>
        IF IsColor(last.args.value)
        THEN ~InvalidSettingValue
        ELSE InvalidSettingValue /\ Requests = {}

----------------------------------------------------------------------------
(* The login after the logout *)

\* C36: an async_login on a client whose session async_logout has closed
\* raises an exception: it returns neither True nor False, and the session
\* stays closed.
C36_LoginOnClosedSessionRaises ==
    (last.op = "login" /\ last.before.session = "closed")
        => ~Returned /\ session = "closed"

----------------------------------------------------------------------------
(* The identity of the devices *)

\* C37: every key of the registry maps to the device that has the key as its
\* device id, in every state, whatever has been merged into the record of
\* the device.
C37_KeyIsDeviceId ==
    \A k \in DOMAIN devices : devices[k].device_id = k

\* a fragment with another device id has been merged into the record of a
\* device
C37_Witness ==
    /\ last.op = "update" /\ Returned
    /\ DEVICE_ID \in DOMAIN last.args.data
    /\ LET device == devices[last.args.id] IN
       /\ device.device_json[DEVICE_ID] = last.args.data[DEVICE_ID]
       /\ device.device_json[DEVICE_ID].v # device.device_id
       /\ device.device_id = last.args.id

----------------------------------------------------------------------------
(* The devices of the registry *)

\* C40: async_get_devices, async_get_device and the async_update of a device
\* remove no device from the registry, also when the listing they fetch does
\* not hold a device of the registry; async_logout alone removes devices.
C40_RegistryNeverShrinks ==
    /\ last.op \in {"get_devices", "get_device", "update"} =>
          DOMAIN last.before.devices \subseteq DOMAIN devices
    /\ ~(DOMAIN last.before.devices \subseteq DOMAIN devices) =>
          last.op = "logout" /\ devices = EmptyMap

\* a forced listing that does not hold a device of the registry kept it
C40_Witness ==
    /\ last.op = "get_devices" /\ last.args.refresh /\ Returned
    /\ \E i \in Requests :
          /\ Log[i].url = DEVICES_URL /\ Log[i].out = Status(200)
          /\ ParseBody(Log[i].body).v[RESPONSE_ROWS].v = <<>>
    /\ DOMAIN devices = {"d1", "d2"}

----------------------------------------------------------------------------
(* The material after a login that failed *)

\* the last async_login of the last call had the credentials and did not
\* return True
LastLoginFailed ==
    /\ LoginEnds(1, Len(Log)) # {}
    /\ Log[Greatest(LoginEnds(1, Len(Log)))].out # "True"
    /\ username # None /\ password # None

\* C39: when the last async_login of a login or send call had the
\* credentials and raised or returned False, the stored AuthenticationResult
\* is empty after the call; an async_login without the credentials sends no
\* request and leaves the stored AuthenticationResult as it was.
C39_FailedLoginLeavesNoMaterial ==
    last.op \in {"login", "send"} =>
        /\ LastLoginFailed => Size(MaterialNow) = 0
        /\ (last.op = "login" /\ (username = None \/ password = None)) =>
              /\ Failed(AuthenticationException)
              /\ Requests = {}
              /\ cache = last.before.cache

----------------------------------------------------------------------------
(* The token of the requests of two tasks *)

====
